---- MODULE Spec2Model ----
(***************************************************************************)
(* A model of the advertising-data server: the retry policy and the       *)
(* paginated fetcher of DataSyncService, the sync orchestrator (syncAll), *)
(* the sync and performance routes and the TTL cache between them.        *)
(***************************************************************************)
EXTENDS Integers, Sequences, FiniteSets, TLC

VARIABLES
    rt,         \* one fetchWithRetry call observed in isolation
    pg,         \* one fetchAllPages call observed in isolation
    hp,         \* the objects behind progress and a snapshot of getProgress
    pq,         \* one getPerformance call observed in isolation
    kp,         \* the KPI calculator applied to the days of some ads
    pn,         \* one paginate call of the data server
    rq,         \* one POST to the performance route, with its body
    cl,         \* the dashboard client's PerformanceProvider
    env,        \* what the environment may do in this behaviour
    upstream,   \* rows held by the data server, per collection
    progress,   \* DataSyncService.progress
    callbacks,  \* DataSyncService.progressCallbacks, in insertion order
    seen,       \* per observer, the last snapshot written to it
    runs,       \* the invocations of syncAll
    nRuns,      \* how many invocations were started
    store,      \* rows in the database, per table
    reply,      \* status code of the pending reply to POST /api/sync
    cache,      \* Cache.store
    reqs,       \* performance requests in flight
    served,     \* the last performance response sent
    now         \* Date.now()

vars ==
    <<rt, pg, hp, pq, kp, pn, rq, cl, env, upstream, progress, callbacks, seen,
      runs, nRuns, store, reply, cache, reqs, served, now>>

\* The calls observed in isolation.
\* The parts outside the sync service and its routes.
sideVars == <<kp, pn, rq, cl>>

callVars == <<rt, pg, hp, pq, sideVars>>

syncVars ==
    <<env, upstream, progress, callbacks, seen, runs, nRuns, store,
      reply, cache, reqs, served, now>>

----------------------------------------------------------------------------
(* Bounds and program constants *)

DefaultMaxRetries == 5
DefaultRetryDelay == 1000

\* The values of the maxRetries argument that are explored.
RetryArgs == 1..DefaultMaxRetries

----------------------------------------------------------------------------
(* The upstream's answers to one page request.  status 0 stands for a      *)
(* rejected fetch() or response.json() (a network-level failure);          *)
(* retryAfterMs 0 stands for a 429 body without the hint.                  *)

Resp(s, h) == [status |-> s, retryAfterMs |-> h]

NetErr == Resp(0, 0)

Responses ==
    {Resp(200, 0), Resp(429, 0), Resp(429, 250), Resp(500, 0), Resp(404, 0), NetErr}

HttpError(status) ==
    CASE status = 404 -> "HTTP 404"
      [] status = 403 -> "HTTP 403"
      [] OTHER -> "HTTP error"

Outcome(k, s, e) == [k |-> k, sleep |-> s, error |-> e]

\* The try block with a 429 branch that waits the base delay whatever the body
\* of the response says.
TryBodyIgnoresHint(attempt, maxRetries, retryDelay, resp) ==
    IF resp.status = 0
    THEN Outcome("throw", 0, "fetch failed")
    ELSE IF resp.status = 429
    THEN Outcome("continue", retryDelay, "")
    ELSE IF resp.status = 500
    THEN IF attempt < maxRetries - 1
         THEN Outcome("continue", retryDelay, "")
         ELSE Outcome("throw", 0, "Internal Server Error after retries")
    ELSE IF ~(resp.status >= 200 /\ resp.status <= 299)
    THEN Outcome("throw", 0, HttpError(resp.status))
    ELSE Outcome("return", 0, "")

\* The body of the try block for one attempt.
TryBody(attempt, maxRetries, retryDelay, resp) ==
    IF resp.status = 0
    THEN Outcome("throw", 0, "fetch failed")
    ELSE IF resp.status = 429
    THEN Outcome("continue",
                 IF resp.retryAfterMs # 0 THEN resp.retryAfterMs ELSE retryDelay,
                 "")
    ELSE IF resp.status = 500
    THEN IF attempt < maxRetries - 1
         THEN Outcome("continue", retryDelay, "")
         ELSE Outcome("throw", 0, "Internal Server Error after retries")
    ELSE IF ~(resp.status >= 200 /\ resp.status <= 299)
    THEN Outcome("throw", 0, HttpError(resp.status))
    ELSE Outcome("return", 0, "")

\* The catch block: it receives whatever the try block threw.
CatchBlock(attempt, maxRetries, retryDelay, o) ==
    IF o.k # "throw"
    THEN o
    ELSE IF attempt = maxRetries - 1
    THEN o
    ELSE Outcome("continue", retryDelay, "")

\* FetchAttempt with a 429 that does not use up an attempt.
FetchAttemptUncounted(attempt, maxRetries, retryDelay, resp) ==
    LET o == CatchBlock(attempt, maxRetries, retryDelay,
                        TryBody(attempt, maxRetries, retryDelay, resp))
    IN  IF o.k = "continue"
        THEN IF resp.status = 429
             THEN [k |-> "retry", attempt |-> attempt,
                   sleep |-> o.sleep, error |-> ""]
             ELSE IF attempt + 1 < maxRetries
             THEN [k |-> "retry", attempt |-> attempt + 1,
                   sleep |-> o.sleep, error |-> ""]
             ELSE [k |-> "throw", attempt |-> attempt + 1,
                   sleep |-> o.sleep, error |-> "Max retries exceeded"]
        ELSE [k |-> o.k, attempt |-> attempt, sleep |-> 0, error |-> o.error]

\* One iteration of the for loop, with the loop's own exit test.
FetchAttempt(attempt, maxRetries, retryDelay, resp) ==
    LET o == CatchBlock(attempt, maxRetries, retryDelay,
                        TryBody(attempt, maxRetries, retryDelay, resp))
    IN  IF o.k = "continue"
        THEN IF attempt + 1 < maxRetries
             THEN [k |-> "retry", attempt |-> attempt + 1,
                   sleep |-> o.sleep, error |-> ""]
             ELSE [k |-> "throw", attempt |-> attempt + 1,
                   sleep |-> o.sleep, error |-> "Max retries exceeded"]
        ELSE [k |-> o.k, attempt |-> attempt, sleep |-> 0, error |-> o.error]

\* The for loop of fetchWithRetry run against the answers the upstream gives
\* to its successive requests, from the i-th on.  "pending" is a call that
\* is still looping when the answers run out.
RECURSIVE RetryLoop(_, _, _, _, _)
RetryLoop(answers, i, attempt, maxRetries, retryDelay) ==
    IF maxRetries = 0
    THEN [k |-> "throw", error |-> "Max retries exceeded"]
    ELSE IF i > Len(answers)
    THEN [k |-> "pending", error |-> ""]
    ELSE LET o == FetchAttempt(attempt, maxRetries, retryDelay, answers[i])
         IN  IF o.k = "retry"
             THEN RetryLoop(answers, i + 1, o.attempt, maxRetries, retryDelay)
             ELSE [k |-> o.k, error |-> o.error]

FetchWithRetry(answers) ==
    RetryLoop(answers, 1, 0, DefaultMaxRetries, DefaultRetryDelay)

SyncAnswers == {Resp(200, 0), Resp(429, 1000), Resp(500, 0), Resp(404, 0), NetErr}

\* Every way a fetchWithRetry call of fetchAllPages can settle.
FetchResults ==
    {FetchWithRetry(answers) : answers \in [1..DefaultMaxRetries -> SyncAnswers]}

----------------------------------------------------------------------------
(* The upstream collections and their pages (data-server paginate) *)

Entities == {"campaigns", "creatives", "ads", "insights"}

FirstThree == {"campaigns", "creatives", "ads"}

PAGE_SIZE == 100

Max(a, b) == IF a > b THEN a ELSE b

Min(a, b) == IF a < b THEN a ELSE b

CeilDiv(a, b) == (a + b - 1) \div b

TotalPages(n) == Max(1, CeilDiv(n, PAGE_SIZE))

\* The number of rows on page p of a collection of n rows.
PageRows(n, p) == Max(0, Min(PAGE_SIZE, n - (p - 1) * PAGE_SIZE))

RECURSIVE RowsOfPages(_, _)
RowsOfPages(n, pages) ==
    IF pages = {}
    THEN 0
    ELSE LET p == CHOOSE q \in pages : TRUE
         IN  PageRows(n, p) + RowsOfPages(n, pages \ {p})

----------------------------------------------------------------------------
(* SyncProgress, subscribe and updateProgress *)

Counter(f, t) == [fetched |-> f, total |-> t]

NoError == ""

InitialProgress ==
    [campaigns |-> Counter(0, 0), ads |-> Counter(0, 0),
     creatives |-> Counter(0, 0), insights |-> Counter(0, 0),
     status |-> "idle", error |-> NoError]

NoSnapshot == [status |-> "none"]

\* { ...this.progress, ...updates }
Merge(p, updates) ==
    [k \in DOMAIN p |-> IF k \in DOMAIN updates THEN updates[k] ELSE p[k]]

RemoveCallback(cbs, id) == SelectSeq(cbs, LAMBDA cb : cb.id # id)

Subscribed(id) == \E i \in 1..Len(callbacks) : callbacks[i].id = id

\* progressCallbacks.forEach(cb => cb(progress)), from the i-th callback on.
\* failing is the set of observers whose invocation throws in this update.  An
\* "sse" callback is the route's: it catches the failed write and unsubscribes
\* itself.  A "raw" callback has been handed the snapshot when it lets the
\* exception out, which ends the forEach.
RECURSIVE Notify(_, _, _, _, _)
Notify(cbs, i, p, failing, acc) ==
    IF i > Len(cbs) \/ acc.thrown
    THEN acc
    ELSE LET cb == cbs[i]
         IN  IF cb.id \notin failing
             THEN Notify(cbs, i + 1, p, failing,
                         [acc EXCEPT !.seen[cb.id] = p])
             ELSE IF cb.kind = "sse"
             THEN Notify(cbs, i + 1, p, failing,
                         [acc EXCEPT !.callbacks = RemoveCallback(@, cb.id),
                                     !.seen[cb.id] = NoSnapshot])
             ELSE [acc EXCEPT !.thrown = TRUE, !.seen[cb.id] = p]

\* The service state that updateProgress reads and writes.
Px == [progress |-> progress, callbacks |-> callbacks, seen |-> seen,
       thrown |-> FALSE]

UpdateProgress(px, updates, failing) ==
    LET p == Merge(px.progress, updates)
        n == Notify(px.callbacks, 1, p, failing,
                    [callbacks |-> px.callbacks, seen |-> px.seen,
                     thrown |-> FALSE])
    IN  [progress |-> p, callbacks |-> n.callbacks, seen |-> n.seen,
         thrown |-> n.thrown]

SetPx(px) ==
    /\ progress' = px.progress
    /\ callbacks' = px.callbacks
    /\ seen' = px.seen

CallbackError == "callback error"

----------------------------------------------------------------------------
(* The objects of progress: this.progress holds its four counters by      *)
(* reference, and so does every copy made with { ...this.progress }.      *)

EntityOrder == <<"campaigns", "ads", "creatives", "insights">>

MaxCells == 7

\* cells: the counter objects ever created; svc: this.progress, with the
\* index of a counter object for each entity type; snap: the object a caller
\* got from getProgress.
InitialHeap ==
    [cells |-> [i \in 1..4 |-> Counter(0, 0)],
     svc |-> [campaigns |-> 1, ads |-> 2, creatives |-> 3, insights |-> 4,
              status |-> "idle", error |-> NoError],
     snap |-> [status |-> "none"]]

\* The value of an object whose counters are held by reference.
Deref(cells, o) ==
    [k \in DOMAIN o |-> IF k \in Entities THEN cells[o[k]] ELSE o[k]]

\* { ...o, ...updates }: a new object; the counters named in updates are the
\* new object literals of the caller, every other counter is shared with o.
RECURSIVE Spread(_, _, _, _)
Spread(cells, o, updates, i) ==
    IF i > Len(EntityOrder)
    THEN [cells |-> cells,
          obj |-> [k \in DOMAIN o |->
                     IF k \notin Entities /\ k \in DOMAIN updates
                     THEN updates[k]
                     ELSE o[k]]]
    ELSE LET e == EntityOrder[i]
         IN  IF e \in DOMAIN updates
             THEN Spread(Append(cells, updates[e]),
                         [o EXCEPT ![e] = Len(cells) + 1], updates, i + 1)
             ELSE Spread(cells, o, updates, i + 1)

\* The updates syncAll and fetchAllPages pass to updateProgress.
HeapUpdates ==
    {[status |-> "syncing", error |-> NoError],
     [campaigns |-> Counter(0, 0), creatives |-> Counter(0, 0),
      ads |-> Counter(0, 0)],
     [campaigns |-> Counter(50, 100)],
     [insights |-> Counter(120, 120)],
     [status |-> "completed"]}

\* getProgress(): return { ...this.progress }
HeapGet ==
    /\ hp' = [hp EXCEPT !.snap = Spread(hp.cells, hp.svc, <<>>, 1).obj]
    /\ UNCHANGED <<rt, pg, pq, sideVars, syncVars>>

\* updateProgress(updates), with no callback subscribed.
HeapUpdate(updates) ==
    /\ Len(hp.cells) + Cardinality(DOMAIN updates \cap Entities) <= MaxCells
    /\ LET s == Spread(hp.cells, hp.svc, updates, 1)
       IN  /\ hp' = [hp EXCEPT !.cells = s.cells, !.svc = s.obj]
           /\ progress' = Deref(s.cells, s.obj)
    /\ UNCHANGED <<rt, pg, pq, sideVars, env, upstream, callbacks, seen, runs, nRuns, store,
                   reply, cache, reqs, served, now>>

\* The caller assigns to a field of the snapshot it was given.
SnapSetStatus(v) ==
    /\ hp.snap.status # "none"
    /\ hp' = [hp EXCEPT !.snap.status = v]
    /\ UNCHANGED <<rt, pg, pq, sideVars, syncVars>>

\* The caller assigns to fetched and total of a counter of the snapshot.
SnapSetCounter(e, v) ==
    /\ hp.snap.status # "none"
    /\ hp' = [hp EXCEPT !.cells[hp.snap[e]] = v]
    /\ progress' = Deref(hp'.cells, hp.svc)
    /\ UNCHANGED <<rt, pg, pq, sideVars, env, upstream, callbacks, seen, runs, nRuns, store,
                   reply, cache, reqs, served, now>>

----------------------------------------------------------------------------
(* fetchAllPages: one collection fetch *)

DefaultMaxConcurrent == 20
InsightsMaxConcurrent == 30

NoFetcher ==
    [pc |-> "idle", inflight |-> {}, hung |-> {}, got |-> {}, fetched |-> 0,
     totalPages |-> 0, pageSize |-> 0, batchIndex |-> 0, i |-> 0,
     maxConcurrent |-> 0, error |-> NoError]

\* The call of fetchAllPages up to its first await: page 1 is requested.
StartFetcher(maxConcurrent) ==
    [NoFetcher EXCEPT !.pc = "first", !.inflight = {1},
                      !.maxConcurrent = maxConcurrent]

\* Batches of one page more than maxConcurrent.
BatchPagesWide(totalPages, i, maxConcurrent) ==
    {j + 1 : j \in (i + 1)..Min(i + maxConcurrent + 1, totalPages - 1)}

\* The batches cut from a list of remaining pages that starts at page 1.
BatchPagesFromFirst(totalPages, i, maxConcurrent) ==
    {j : j \in (i + 1)..Min(i + maxConcurrent, totalPages - 1)}

\* remainingPages.slice(i, i + maxConcurrent), remainingPages being 2..totalPages
BatchPages(totalPages, i, maxConcurrent) ==
    {j + 1 : j \in (i + 1)..Min(i + maxConcurrent, totalPages - 1)}

FailFetcher(f, page, error) ==
    [f EXCEPT !.pc = "failed", !.inflight = @ \ {page},
              !.error = IF f.pc = "failed" THEN @ ELSE error]

\* Page 1 has arrived.
FirstPageArrived(f, e, n, px, failing) ==
    LET rows == PageRows(n, 1)
        totalPages == TotalPages(n)
        px1 == UpdateProgress(px,
                   [k \in {e} |-> Counter(rows, totalPages * PAGE_SIZE)],
                   failing)
        f1 == [f EXCEPT !.fetched = rows, !.totalPages = totalPages,
                        !.pageSize = PAGE_SIZE, !.inflight = {}]
    IN  IF px1.thrown
        THEN [f |-> [f1 EXCEPT !.pc = "failed", !.error = CallbackError],
              px |-> px1]
        ELSE IF totalPages = 1
        THEN [f |-> [f1 EXCEPT !.pc = "done"], px |-> px1]
        ELSE [f |-> [f1 EXCEPT
                       !.pc = "batch",
                       !.inflight =
                           BatchPages(totalPages, 0, f.maxConcurrent)],
              px |-> px1]

\* The end of a batch whose responses are not added to allData.
BatchArrivedDropsData(f, e, n, px, failing) ==
    LET fetched == f.fetched
        batchIndex == f.batchIndex + 1
        last == f.i + f.maxConcurrent >= f.totalPages - 1
        px1 == IF batchIndex % 2 = 0 \/ last
               THEN UpdateProgress(px,
                        [k \in {e} |->
                            Counter(fetched, f.totalPages * f.pageSize)],
                        failing)
               ELSE px
        f1 == [f EXCEPT !.fetched = fetched, !.batchIndex = batchIndex,
                        !.i = f.i + f.maxConcurrent, !.got = {}]
    IN  IF px1.thrown
        THEN [f |-> [f1 EXCEPT !.pc = "failed", !.error = CallbackError],
              px |-> px1]
        ELSE IF last
        THEN [f |-> [f1 EXCEPT !.pc = "done"], px |-> px1]
        ELSE [f |-> [f1 EXCEPT
                       !.inflight = BatchPages(f.totalPages, f1.i,
                                               f.maxConcurrent)],
              px |-> px1]

\* Every request of the current batch has returned: Promise.all resolves.
BatchArrived(f, e, n, px, failing) ==
    LET fetched == f.fetched + RowsOfPages(n, f.got)
        batchIndex == f.batchIndex + 1
        last == f.i + f.maxConcurrent >= f.totalPages - 1
        px1 == IF batchIndex % 2 = 0 \/ last
               THEN UpdateProgress(px,
                        [k \in {e} |->
                            Counter(fetched, f.totalPages * f.pageSize)],
                        failing)
               ELSE px
        f1 == [f EXCEPT !.fetched = fetched, !.batchIndex = batchIndex,
                        !.i = f.i + f.maxConcurrent, !.got = {}]
    IN  IF px1.thrown
        THEN [f |-> [f1 EXCEPT !.pc = "failed", !.error = CallbackError],
              px |-> px1]
        ELSE IF last
        THEN [f |-> [f1 EXCEPT !.pc = "done"], px |-> px1]
        ELSE [f |-> [f1 EXCEPT
                       !.inflight = BatchPages(f.totalPages, f1.i,
                                               f.maxConcurrent)],
              px |-> px1]

\* The fetchWithRetry call for `page` has settled with o.
FetcherStep(f, e, n, page, o, px, failing) ==
    IF o.k = "pending"
    THEN [f |-> [f EXCEPT !.inflight = @ \ {page}, !.hung = @ \cup {page}],
          px |-> px]
    ELSE IF o.k = "throw"
    THEN [f |-> FailFetcher(f, page, o.error), px |-> px]
    ELSE IF f.pc = "first"
    THEN FirstPageArrived(f, e, n, px, failing)
    ELSE IF f.pc = "batch"
    THEN LET f1 == [f EXCEPT !.inflight = @ \ {page},
                             !.got = @ \cup {page}]
         IN  IF f1.inflight # {}
             THEN [f |-> f1, px |-> px]
             ELSE BatchArrived(f1, e, n, px, failing)
    ELSE [f |-> [f EXCEPT !.inflight = @ \ {page}], px |-> px]

\* A set of page numbers in ascending order: the order of a batch and of
\* the results of its Promise.all.
RECURSIVE Ascending(_)
Ascending(S) ==
    IF S = {}
    THEN <<>>
    ELSE LET m == CHOOSE x \in S : \A y \in S : x <= y
         IN  <<m>> \o Ascending(S \ {m})

\* One fetchAllPages call against a source of n rows: the pages it has
\* requested, in the order of the requests, and the pages whose records it
\* has appended to allData, in the order of the appends.
\* No getPerformance call is observed.
NoQuery == [pc |-> "idle"]

\* No KPI calculation is observed.
NoKpi == [pc |-> "idle"]

\* No paginate call is observed.
NoPage == [pc |-> "idle"]

\* No performance request is observed at the route.
NoPost == [pc |-> "idle"]

\* No dashboard is open.
NoClient == [pc |-> "closed"]

SideIdle ==
    /\ kp = NoKpi
    /\ pn = NoPage
    /\ rq = NoPost
    /\ cl = NoClient

NoPager == [n |-> 0, f |-> NoFetcher, requests |-> <<>>, data |-> <<>>]

\* fetchAllPages(endpoint, entityType, queryParams, maxConcurrent) is called.
PagesCall(maxConcurrent) ==
    /\ pg.f.pc = "idle"
    /\ pg' = [pg EXCEPT !.f = StartFetcher(maxConcurrent), !.requests = <<1>>]
    /\ UNCHANGED <<rt, hp, pq, sideVars, syncVars>>

\* The request of `page` is answered with that page of the source.
PageArrives(page) ==
    /\ page \in pg.f.inflight
    /\ LET o == FetchWithRetry([i \in 1..DefaultMaxRetries |-> Resp(200, 0)])
           s == FetcherStep(pg.f, "campaigns", pg.n, page, o, Px, {})
           wave == pg.f.inflight = {page}
       IN  /\ pg' = [pg EXCEPT
                       !.f = s.f,
                       !.requests =
                           IF wave /\ s.f.pc = "batch"
                           THEN @ \o Ascending(s.f.inflight)
                           ELSE @,
                       !.data =
                           IF pg.f.pc = "first"
                           THEN <<page>>
                           ELSE IF wave
                           THEN @ \o Ascending(pg.f.got \cup {page})
                           ELSE @]
           /\ SetPx(s.px)
    /\ UNCHANGED <<rt, hp, pq, sideVars, env, upstream, runs, nRuns, store, reply, cache,
                   reqs, served, now>>

----------------------------------------------------------------------------
(* syncAll and the POST /api/sync route *)

MaxRuns == 2

ChunkSize == 5000

Observers == {"a", "b"}

Runs == 1..MaxRuns

NoRun ==
    [pc |-> "none", f |-> [e \in Entities |-> NoFetcher],
     ins |-> [e \in FirstThree |-> "none"], ci |-> 0,
     fault |-> NoError, rejected |-> NoError, clears |-> 0]

EmptyStore == [e \in Entities |-> 0]

NoEntry == [expiresAt |-> -1]

PerfKeys == {"q1", "q2"}

EmptyCache == [k \in PerfKeys |-> NoEntry]

ActivePcs == {"truncate", "fetch3", "store3", "fetchIns", "storeIns"}

\* World: what one step of a run works on (the service state, the run, the
\* database and the cache).

\* The then and catch handlers of the route, with a cache.clear() in both.
OnSyncSettledAlways(w, succeeded) ==
    [w EXCEPT !.cache = EmptyCache, !.run.clears = @ + 1]

\* The then and catch handlers the route attaches to syncAll(); clears
\* counts the calls of cache.clear().
OnSyncSettled(w, succeeded) ==
    IF succeeded
    THEN [w EXCEPT !.cache = EmptyCache, !.run.clears = @ + 1]
    ELSE w

\* What one step of a run works on.
World(r) == [px |-> Px, run |-> runs[r], store |-> store, cache |-> cache]

\* Once syncAll has settled, the locals of its calls that have settled too
\* are gone; a fetchAllPages or createMany still pending stays.
Settled(run) ==
    IF run.pc \in {"done", "failed"}
    THEN [run EXCEPT
            !.f = [e \in Entities |->
                     IF run.f[e].inflight = {} /\ run.f[e].hung = {}
                     THEN NoFetcher
                     ELSE run.f[e]],
            !.ins = [e \in FirstThree |->
                       IF run.ins[e] = "pending" THEN "pending" ELSE "none"],
            !.ci = 0]
    ELSE run

SetWorld(r, w) ==
    /\ SetPx(w.px)
    /\ runs' = [runs EXCEPT ![r] = Settled(w.run)]
    /\ store' = w.store
    /\ cache' = w.cache

\* The catch block of syncAll with the final throw left out.
CatchSwallows(w, error, failing) ==
    LET px1 == UpdateProgress([w.px EXCEPT !.thrown = FALSE],
                   [status |-> "error", error |-> error], failing)
    IN  OnSyncSettled([w EXCEPT !.px = px1, !.run.pc = "done"], TRUE)

\* The catch block of syncAll: error is what the try block threw.
Catch(w, error, failing) ==
    LET px1 == UpdateProgress([w.px EXCEPT !.thrown = FALSE],
                   [status |-> "error", error |-> error], failing)
    IN  OnSyncSettled(
            [w EXCEPT
                !.px = px1,
                !.run.pc = "failed",
                !.run.rejected = IF px1.thrown THEN CallbackError ELSE error],
            FALSE)

\* A store or upstream failure reaches the try block of syncAll.
Fault(w, error, failing) ==
    Catch([w EXCEPT !.run.fault = error], error, failing)

\* The end of the try block, with a status that goes back to idle.
CompleteToIdle(w, failing) ==
    LET px1 == UpdateProgress(w.px, [status |-> "idle"], failing)
    IN  IF px1.thrown
        THEN Catch([w EXCEPT !.px = px1], CallbackError, failing)
        ELSE OnSyncSettled([w EXCEPT !.px = px1, !.run.pc = "done"], TRUE)

\* The end of the try block.
Complete(w, failing) ==
    LET px1 == UpdateProgress(w.px, [status |-> "completed"], failing)
    IN  IF px1.thrown
        THEN Catch([w EXCEPT !.px = px1], CallbackError, failing)
        ELSE OnSyncSettled([w EXCEPT !.px = px1, !.run.pc = "done"], TRUE)

\* The insights fetch is started together with the three createMany calls.
StartStoresAndInsights(w) ==
    [w EXCEPT !.run.pc = "store3",
              !.run.ins = [e \in FirstThree |-> "pending"],
              !.run.f["insights"] = StartFetcher(InsightsMaxConcurrent)]

\* The three createMany calls are issued together.
StartStores(w) ==
    [w EXCEPT !.run.pc = "store3",
              !.run.ins = [e \in FirstThree |-> "pending"]]

\* The chunk loop over the fetched insights.
StartChunks(w, failing) ==
    IF w.run.f["insights"].fetched = 0
    THEN Complete(w, failing)
    ELSE [w EXCEPT !.run.pc = "storeIns", !.run.ci = 0]

\* syncAll resumes after a fetchAllPages it awaits has settled.
AfterFetch(w, e, failing) ==
    LET f == w.run.f[e]
    IN  IF f.pc = "failed"
        THEN IF f.error = CallbackError
             THEN Catch(w, f.error, failing)
             ELSE Fault(w, f.error, failing)
        ELSE IF f.pc # "done"
        THEN w
        ELSE IF w.run.pc = "fetch3"
        THEN IF \A e2 \in FirstThree : w.run.f[e2].pc = "done"
             THEN StartStores(w)
             ELSE w
        ELSE StartChunks(w, failing)

Awaited(run, e) ==
    \/ run.pc = "fetch3" /\ e \in FirstThree
    \/ run.pc = "fetchIns" /\ e = "insights"

SubscribedIds == {callbacks[i].id : i \in 1..Len(callbacks)}

\* The ways a page request can settle in this environment.
PageResults ==
    IF env.upstreamFaults
    THEN FetchResults
    ELSE {FetchWithRetry([i \in 1..DefaultMaxRetries |-> Resp(200, 0)])}

\* syncAll() is called and runs up to its first await.
StartSync(failing) ==
    LET r == nRuns + 1
        w == [px |-> Px, run |-> NoRun, store |-> store, cache |-> cache]
        px1 == UpdateProgress(w.px,
                   [status |-> "syncing", error |-> NoError], failing)
    IN  /\ nRuns < env.maxRuns
        /\ nRuns' = r
        /\ SetWorld(r,
               IF px1.thrown
               THEN OnSyncSettled(
                        [w EXCEPT !.px = px1, !.run.pc = "failed",
                                  !.run.rejected = CallbackError],
                        FALSE)
               ELSE [w EXCEPT !.px = px1, !.run.pc = "truncate"])

\* POST /api/sync without the look at the current status.
TriggerUnguarded(failing) ==
    /\ failing \subseteq SubscribedIds
    /\ StartSync(failing)
    /\ reply' = 200
    /\ UNCHANGED <<callVars, env, upstream, reqs, served, now>>

\* POST /api/sync
Trigger(failing) ==
    /\ failing \subseteq SubscribedIds
    /\ IF progress.status = "syncing"
       THEN /\ reply' = 409
            /\ UNCHANGED <<progress, callbacks, seen, runs, nRuns, store, cache>>
       ELSE /\ StartSync(failing)
            /\ reply' = 200
    /\ UNCHANGED <<callVars, env, upstream, reqs, served, now>>

\* TRUNCATE has completed.
TruncateDone(r, failing) ==
    /\ failing \subseteq SubscribedIds
    /\ runs[r].pc = "truncate"
    /\ LET w == [World(r) EXCEPT !.store = EmptyStore]
           px1 == UpdateProgress(w.px,
                      [k \in FirstThree |-> Counter(0, 0)], failing)
           w1 == [w EXCEPT !.px = px1]
       IN  SetWorld(r,
               IF px1.thrown
               THEN Catch(w1, CallbackError, failing)
               ELSE [w1 EXCEPT
                       !.run.pc = "fetch3",
                       !.run.f = [e \in Entities |->
                                    IF e \in FirstThree
                                    THEN StartFetcher(DefaultMaxConcurrent)
                                    ELSE NoFetcher]])
    /\ UNCHANGED <<callVars, env, upstream, nRuns, reply, reqs, served, now>>

TruncateFail(r, failing) ==
    /\ failing \subseteq SubscribedIds
    /\ runs[r].pc = "truncate"
    /\ env.storeFaults
    /\ SetWorld(r, Fault(World(r), "truncate failed", failing))
    /\ UNCHANGED <<callVars, env, upstream, nRuns, reply, reqs, served, now>>

\* The fetchWithRetry call for `page` of collection e settles with o.  Its
\* attempts and sleeps touch nothing but its own locals, so the call is one
\* step here; C1 and C2 look inside it.
FetchAnswer(r, e, page, o, failing) ==
    /\ failing \subseteq SubscribedIds
    /\ page \in runs[r].f[e].inflight
    /\ o \in PageResults
    /\ LET w == World(r)
           f == w.run.f[e]
           s == FetcherStep(f, e, upstream[e], page, o, w.px, failing)
           w1 == [w EXCEPT !.px = s.px, !.run.f[e] = s.f]
       IN  SetWorld(r,
               IF Awaited(w.run, e) /\ f.pc # "failed"
               THEN AfterFetch(w1, e, failing)
               ELSE w1)
    /\ UNCHANGED <<callVars, env, upstream, nRuns, reply, reqs, served, now>>

\* createMany of one of the first three tables has completed.
InsertDone(r, e, failing) ==
    /\ failing \subseteq SubscribedIds
    /\ runs[r].ins[e] = "pending"
    /\ LET w == World(r)
           w1 == [w EXCEPT !.store[e] = Max(@, w.run.f[e].fetched),
                           !.run.ins[e] = "done"]
           px1 == UpdateProgress(w1.px,
                      [k \in {"insights"} |-> Counter(0, 0)], failing)
       IN  SetWorld(r,
               IF w.run.pc = "store3"
                  /\ \A e2 \in FirstThree : w1.run.ins[e2] = "done"
               THEN IF px1.thrown
                    THEN Catch([w1 EXCEPT !.px = px1], CallbackError, failing)
                    ELSE [w1 EXCEPT
                            !.px = px1,
                            !.run.pc = "fetchIns",
                            !.run.f["insights"] =
                                StartFetcher(InsightsMaxConcurrent)]
               ELSE w1)
    /\ UNCHANGED <<callVars, env, upstream, nRuns, reply, reqs, served, now>>

InsertFail(r, e, failing) ==
    /\ failing \subseteq SubscribedIds
    /\ runs[r].ins[e] = "pending"
    /\ env.storeFaults
    /\ LET w == [World(r) EXCEPT !.run.ins[e] = "failed"]
       IN  SetWorld(r,
               IF w.run.pc = "store3"
               THEN Fault(w, "insert failed", failing)
               ELSE w)
    /\ UNCHANGED <<callVars, env, upstream, nRuns, reply, reqs, served, now>>

\* createMany of one chunk of insights has completed.
ChunkDone(r, failing) ==
    /\ failing \subseteq SubscribedIds
    /\ runs[r].pc = "storeIns"
    /\ LET w == World(r)
           len == w.run.f["insights"].fetched
           ci == w.run.ci
           px1 == IF ci % (ChunkSize * 3) = 0 \/ ci + ChunkSize >= len
                  THEN UpdateProgress(w.px,
                           [k \in {"insights"} |-> Counter(len, len)], failing)
                  ELSE w.px
           w1 == [w EXCEPT !.store["insights"] = Max(@, Min(ci + ChunkSize, len)),
                           !.px = px1,
                           !.run.ci = ci + ChunkSize]
       IN  SetWorld(r,
               IF px1.thrown
               THEN Catch(w1, CallbackError, failing)
               ELSE IF w1.run.ci < len
               THEN w1
               ELSE Complete(w1, failing))
    /\ UNCHANGED <<callVars, env, upstream, nRuns, reply, reqs, served, now>>

ChunkFail(r, failing) ==
    /\ failing \subseteq SubscribedIds
    /\ runs[r].pc = "storeIns"
    /\ env.storeFaults
    /\ SetWorld(r, Fault(World(r), "insert failed", failing))
    /\ UNCHANGED <<callVars, env, upstream, nRuns, reply, reqs, served, now>>

----------------------------------------------------------------------------
(* GET /api/sync/status and subscribe *)

\* The route writes the current snapshot and subscribes its callback.
SseConnect(id) ==
    /\ id \in env.observers
    /\ ~Subscribed(id)
    /\ seen' = [seen EXCEPT ![id] = progress]
    /\ callbacks' = Append(callbacks, [id |-> id, kind |-> "sse"])
    /\ UNCHANGED <<callVars, env, upstream, progress, runs, nRuns, store, reply,
                   cache, reqs, served, now>>

\* The client disconnects: the close handler unsubscribes.
SseClose(id) ==
    /\ \E i \in 1..Len(callbacks) :
          callbacks[i].id = id /\ callbacks[i].kind = "sse"
    /\ callbacks' = RemoveCallback(callbacks, id)
    /\ seen' = [seen EXCEPT ![id] = NoSnapshot]
    /\ UNCHANGED <<callVars, env, upstream, progress, runs, nRuns, store, reply,
                   cache, reqs, served, now>>

\* subscribe(callback) with a callback that does not catch its own failures.
SubscribeRaw(id) ==
    /\ env.rawCallbacks
    /\ id \in env.observers
    /\ ~Subscribed(id)
    /\ callbacks' = Append(callbacks, [id |-> id, kind |-> "raw"])
    /\ UNCHANGED <<callVars, env, upstream, progress, seen, runs, nRuns, store,
                   reply, cache, reqs, served, now>>

\* The unsubscribe handle of a callback registered with SubscribeRaw.
UnsubscribeRaw(id) ==
    /\ \E i \in 1..Len(callbacks) :
          callbacks[i].id = id /\ callbacks[i].kind = "raw"
    /\ callbacks' = RemoveCallback(callbacks, id)
    /\ seen' = [seen EXCEPT ![id] = NoSnapshot]
    /\ UNCHANGED <<callVars, env, upstream, progress, runs, nRuns, store, reply,
                   cache, reqs, served, now>>

----------------------------------------------------------------------------
(* The cache and POST /api/performance *)

CACHE_TTL_MS == 5 * 60 * 1000

\* The clock advances in steps of half a TTL.
TickMs == CACHE_TTL_MS \div 2

MaxTicks == 3

MaxReqs == 1

NoReq == [pc |-> "free"]

CompletedSyncs == Cardinality({r \in Runs : runs[r].pc = "done"})

\* Cache.get: the entry's data, or a miss; an expired entry is deleted.
CacheGet(c, key, t) ==
    IF c[key] = NoEntry
    THEN [hit |-> FALSE, cache |-> c]
    ELSE IF t > c[key].expiresAt
    THEN [hit |-> FALSE, cache |-> [c EXCEPT ![key] = NoEntry]]
    ELSE [hit |-> TRUE, cache |-> c, data |-> c[key].data]

\* Cache.set; setRun remembers how many syncs had been started.
CacheSet(c, key, value, ttlMs, t) ==
    [c EXCEPT ![key] =
        [data |-> value, expiresAt |-> t + ttlMs, setRun |-> nRuns]]

\* The route up to its first await: a hit is answered from the cache, a
\* miss calls getPerformance.
PerfRequest(id, key) ==
    /\ reqs[id] = NoReq
    /\ LET g == CacheGet(cache, key, now)
       IN  /\ cache' = g.cache
           /\ IF g.hit
              THEN /\ served' = [cached |-> TRUE, key |-> key, data |-> g.data,
                                 at |-> CompletedSyncs]
                   /\ UNCHANGED reqs
              ELSE /\ reqs' = [reqs EXCEPT ![id] = [pc |-> "query", key |-> key]]
                   /\ UNCHANGED served
    /\ UNCHANGED <<callVars, env, upstream, progress, callbacks, seen, runs, nRuns,
                   store, reply, now>>

\* getPerformance reads the database; readAt remembers how many syncs had
\* completed.
PerfRead(id) ==
    /\ reqs[id].pc = "query"
    /\ reqs' = [reqs EXCEPT ![id] =
                   [pc |-> "loaded", key |-> reqs[id].key,
                    data |-> [rows |-> store, readAt |-> CompletedSyncs]]]
    /\ UNCHANGED <<callVars, env, upstream, progress, callbacks, seen, runs, nRuns,
                   store, reply, cache, served, now>>

\* getPerformance has returned: the result is cached and sent.
PerfDone(id) ==
    /\ reqs[id].pc = "loaded"
    /\ cache' = CacheSet(cache, reqs[id].key, reqs[id].data, CACHE_TTL_MS, now)
    /\ served' = [cached |-> FALSE, key |-> reqs[id].key, data |-> reqs[id].data,
                  at |-> CompletedSyncs]
    /\ reqs' = [reqs EXCEPT ![id] = NoReq]
    /\ UNCHANGED <<callVars, env, upstream, progress, callbacks, seen, runs, nRuns,
                   store, reply, now>>

\* getPerformance has thrown: the route answers 500 and caches nothing.
PerfFail(id) ==
    /\ reqs[id].pc = "query"
    /\ env.storeFaults
    /\ reqs' = [reqs EXCEPT ![id] = NoReq]
    /\ UNCHANGED <<callVars, env, upstream, progress, callbacks, seen, runs, nRuns,
                   store, reply, cache, served, now>>

Tick ==
    /\ now < MaxTicks * TickMs
    /\ now' = now + TickMs
    /\ UNCHANGED <<callVars, env, upstream, progress, callbacks, seen, runs, nRuns,
                   store, reply, cache, reqs, served>>

----------------------------------------------------------------------------
(* fetchWithRetry in isolation *)

RetryIdle ==
    [maxRetries |-> DefaultMaxRetries, attempt |-> 0, calls |-> 0,
     hist |-> <<>>, sleeps |-> <<>>, lastSleep |-> 0,
     result |-> "running", error |-> ""]

\* The server after construction, in an environment env over a data set.
ServerInit(e, rows) ==
    /\ env = e
    /\ upstream = rows
    /\ progress = InitialProgress
    /\ callbacks = <<>>
    /\ seen = [id \in Observers |-> NoSnapshot]
    /\ runs = [r \in Runs |-> NoRun]
    /\ nRuns = 0
    /\ store = EmptyStore
    /\ reply = 0
    /\ cache = EmptyCache
    /\ reqs = [id \in 1..MaxReqs |-> NoReq]
    /\ served = [cached |-> FALSE]
    /\ now = 0

Dataset == [campaigns |-> 50, creatives |-> 100, ads |-> 150, insights |-> 120]

MaxPage == 2

QuietEnv ==
    [upstreamFaults |-> FALSE, storeFaults |-> FALSE, rawCallbacks |-> FALSE,
     observers |-> {}, maxRuns |-> 0]

InitRetry ==
    /\ \E m \in RetryArgs : rt = [RetryIdle EXCEPT !.maxRetries = m]
    /\ pg = NoPager
    /\ hp = InitialHeap
    /\ pq = NoQuery
    /\ SideIdle
    /\ ServerInit(QuietEnv, Dataset)

\* The server as deployed: the only subscribers are the SSE route's.
ServerEnv ==
    [upstreamFaults |-> TRUE, storeFaults |-> TRUE, rawCallbacks |-> FALSE,
     observers |-> {"a"}, maxRuns |-> MaxRuns]

Init ==
    /\ rt = RetryIdle
    /\ pg = NoPager
    /\ hp = InitialHeap
    /\ pq = NoQuery
    /\ SideIdle
    /\ ServerInit(ServerEnv, Dataset)

Failings == SUBSET Observers

Next ==
    \/ \E failing \in Failings : Trigger(failing)
    \/ \E r \in Runs, failing \in Failings : TruncateDone(r, failing)
    \/ \E r \in Runs, failing \in Failings : TruncateFail(r, failing)
    \/ \E r \in Runs, e \in Entities, page \in 1..MaxPage, o \in FetchResults,
          failing \in Failings :
          FetchAnswer(r, e, page, o, failing)
    \/ \E r \in Runs, e \in FirstThree, failing \in Failings :
          InsertDone(r, e, failing)
    \/ \E r \in Runs, e \in FirstThree, failing \in Failings :
          InsertFail(r, e, failing)
    \/ \E r \in Runs, failing \in Failings : ChunkDone(r, failing)
    \/ \E r \in Runs, failing \in Failings : ChunkFail(r, failing)
    \/ \E id \in Observers : SseConnect(id)
    \/ \E id \in Observers : SseClose(id)

Spec == Init /\ [][Next]_vars

\* The service with any callback a caller of subscribe may register.
ServiceRuns == 1

ServiceEnv ==
    [upstreamFaults |-> TRUE, storeFaults |-> TRUE, rawCallbacks |-> TRUE,
     observers |-> {"a", "b"}, maxRuns |-> ServiceRuns]

InitService ==
    /\ rt = RetryIdle
    /\ pg = NoPager
    /\ hp = InitialHeap
    /\ pq = NoQuery
    /\ SideIdle
    /\ ServerInit(ServiceEnv, Dataset)

NextService ==
    \/ Next
    \/ \E id \in Observers : SubscribeRaw(id)
    \/ \E id \in Observers : UnsubscribeRaw(id)

SpecService == InitService /\ [][NextService]_vars

\* The server with its performance route, over a reliable upstream.
CacheRuns == 1

CacheEnv ==
    [upstreamFaults |-> FALSE, storeFaults |-> TRUE, rawCallbacks |-> FALSE,
     observers |-> {}, maxRuns |-> CacheRuns]

InitCache ==
    /\ rt = RetryIdle
    /\ pg = NoPager
    /\ hp = InitialHeap
    /\ pq = NoQuery
    /\ SideIdle
    /\ ServerInit(CacheEnv, Dataset)

NextCache ==
    \/ \E failing \in {{}} : Trigger(failing)
    \/ \E r \in Runs : TruncateDone(r, {})
    \/ \E r \in Runs : TruncateFail(r, {})
    \/ \E r \in Runs, e \in Entities, page \in 1..MaxPage, o \in FetchResults :
          FetchAnswer(r, e, page, o, {})
    \/ \E r \in Runs, e \in FirstThree : InsertDone(r, e, {})
    \/ \E r \in Runs, e \in FirstThree : InsertFail(r, e, {})
    \/ \E r \in Runs : ChunkDone(r, {})
    \/ \E r \in Runs : ChunkFail(r, {})
    \/ \E id \in 1..MaxReqs, key \in PerfKeys : PerfRequest(id, key)
    \/ \E id \in 1..MaxReqs : PerfRead(id)
    \/ \E id \in 1..MaxReqs : PerfDone(id)
    \/ \E id \in 1..MaxReqs : PerfFail(id)
    \/ Tick

SpecCache == InitCache /\ [][NextCache]_vars

\* A step of some invocation of syncAll: a store operation or an upstream
\* request of it returns or fails.
RunStep ==
    \E r \in Runs, failing \in Failings :
        \/ TruncateDone(r, failing)
        \/ TruncateFail(r, failing)
        \/ \E e \in Entities, page \in 1..MaxPage, o \in FetchResults :
              FetchAnswer(r, e, page, o, failing)
        \/ \E e \in FirstThree :
              InsertDone(r, e, failing) \/ InsertFail(r, e, failing)
        \/ ChunkDone(r, failing)
        \/ ChunkFail(r, failing)

\* The server when every pending store operation and upstream request
\* eventually returns or fails.
LiveRuns == 1

LiveEnv == [ServerEnv EXCEPT !.maxRuns = LiveRuns]

InitLive ==
    /\ rt = RetryIdle
    /\ pg = NoPager
    /\ hp = InitialHeap
    /\ pq = NoQuery
    /\ SideIdle
    /\ ServerInit(LiveEnv, Dataset)

SpecLive == InitLive /\ [][Next]_vars /\ WF_vars(RunStep)

\* fetch(url) is executed once and answered with resp.
RetryCall(resp) ==
    /\ rt.result = "running"
    /\ UNCHANGED <<pg, hp, pq, sideVars, syncVars>>
    /\ LET o == FetchAttempt(rt.attempt, rt.maxRetries, DefaultRetryDelay, resp)
       IN  rt' = [rt EXCEPT
                    !.calls = @ + 1,
                    !.hist = Append(@, resp.status),
                    !.attempt = o.attempt,
                    !.sleeps = IF o.sleep > 0 THEN Append(@, o.sleep) ELSE @,
                    !.lastSleep = o.sleep,
                    !.result = CASE o.k = "retry" -> "running"
                                 [] o.k = "return" -> "returned"
                                 [] OTHER -> "thrown",
                    !.error = o.error]

NextRetry == \E resp \in Responses : RetryCall(resp)

SpecRetry == InitRetry /\ [][NextRetry]_vars

\* fetchAllPages in isolation, over sources of 1 to 7 pages with full,
\* partly filled and empty last pages.
PagerSizes == {0, 50, 100, 150, 300, 420, 650}

PagerConcurrency == {1, 2, 3, DefaultMaxConcurrent, InsightsMaxConcurrent}

InitPages ==
    /\ rt = RetryIdle
    /\ \E n \in PagerSizes : pg = [NoPager EXCEPT !.n = n]
    /\ hp = InitialHeap
    /\ pq = NoQuery
    /\ SideIdle
    /\ ServerInit(QuietEnv, Dataset)

NextPages ==
    \/ \E maxConcurrent \in PagerConcurrency : PagesCall(maxConcurrent)
    \/ \E page \in 1..TotalPages(pg.n) + 1 : PageArrives(page)

SpecPages == InitPages /\ [][NextPages]_vars

\* getProgress and its callers, with the service's updates in between.
InitHeap ==
    /\ rt = RetryIdle
    /\ pg = NoPager
    /\ hp = InitialHeap
    /\ pq = NoQuery
    /\ SideIdle
    /\ ServerInit(QuietEnv, Dataset)

NextHeap ==
    \/ HeapGet
    \/ \E updates \in HeapUpdates : HeapUpdate(updates)
    \/ \E v \in {"completed", "error"} : SnapSetStatus(v)
    \/ \E e \in Entities, v \in {Counter(7, 7)} : SnapSetCounter(e, v)

SpecHeap == InitHeap /\ [][NextHeap]_vars

----------------------------------------------------------------------------
(* PerformanceService.getPerformance.  Names are sequences of characters, *)
(* so that the case-insensitive `contains` of the query is computed.      *)

Lowers ==
    <<"a", "b", "c", "d", "e", "f", "g", "h", "i", "j", "k", "l", "m",
      "n", "o", "p", "q", "r", "s", "t", "u", "v", "w", "x", "y", "z">>

Uppers ==
    <<"A", "B", "C", "D", "E", "F", "G", "H", "I", "J", "K", "L", "M",
      "N", "O", "P", "Q", "R", "S", "T", "U", "V", "W", "X", "Y", "Z">>

Lower(c) ==
    IF \E i \in 1..Len(Uppers) : Uppers[i] = c
    THEN Lowers[CHOOSE i \in 1..Len(Uppers) : Uppers[i] = c]
    ELSE c

\* Rank of a character in the collation order: space, then the letters.
Rank(c) ==
    IF \E i \in 1..Len(Lowers) : Lowers[i] = Lower(c)
    THEN CHOOSE i \in 1..Len(Lowers) : Lowers[i] = Lower(c)
    ELSE 0

\* { contains: text, mode: "insensitive" }
Contains(name, text) ==
    \E i \in 0..(Len(name) - Len(text)) :
        \A j \in 1..Len(text) : Lower(name[i + j]) = Lower(text[j])

\* a.localeCompare(b) for names of letters and spaces: negative, 0 or
\* positive; letters compare by the alphabet, a lower-case letter before its
\* upper-case form when nothing else differs.
RECURSIVE LetterCompare(_, _, _)
LetterCompare(a, b, i) ==
    IF i > Len(a) /\ i > Len(b) THEN 0
    ELSE IF i > Len(a) THEN -1
    ELSE IF i > Len(b) THEN 1
    ELSE IF Rank(a[i]) # Rank(b[i]) THEN Rank(a[i]) - Rank(b[i])
    ELSE LetterCompare(a, b, i + 1)

RECURSIVE CaseCompare(_, _, _)
CaseCompare(a, b, i) ==
    IF i > Len(a) THEN 0
    ELSE IF a[i] = b[i] THEN CaseCompare(a, b, i + 1)
    ELSE IF a[i] = Lower(a[i]) THEN -1
    ELSE 1

LocaleCompare(a, b) ==
    LET primary == LetterCompare(a, b, 1)
    IN  IF primary # 0 THEN primary ELSE CaseCompare(a, b, 1)

Measures ==
    {"impressions", "clicks", "spend", "conversions", "reach", "video_views",
     "leads", "conversion_value"}

\* One day of raw measures.
Day(impressions, clicks, spend, conversions, reach, video_views, leads, conversion_value) ==
    [impressions |-> impressions, clicks |-> clicks, spend |-> spend,
     conversions |-> conversions, reach |-> reach,
     video_views |-> video_views, leads |-> leads,
     conversion_value |-> conversion_value]

\* An Insight row; the measures not given are derived from the clicks.
Insight(ad, campaign, date, impressions, clicks, spend) ==
    [ad_id |-> ad, campaign_id |-> campaign, date |-> date,
     impressions |-> impressions, clicks |-> clicks, spend |-> spend,
     conversions |-> clicks \div 2, reach |-> impressions \div 2,
     video_views |-> impressions \div 4, leads |-> clicks \div 3,
     conversion_value |-> (clicks \div 2) * 15]

\* The tables getPerformance reads: campaigns and ads by id, and the insight
\* rows in the order findMany returns them.
SunName == <<"S", "u", "n">>
MoonName == <<"M", "o", "o", "n">>
StarName == <<"S", "t", "a", "r">>

SmallDb ==
    [campaigns |->
        <<[campaign_id |-> 1, campaign_name |-> SunName,
           campaign_objective |-> "sales", status |-> "active"],
          [campaign_id |-> 2, campaign_name |-> MoonName,
           campaign_objective |-> "leads", status |-> "active"],
          [campaign_id |-> 3, campaign_name |-> StarName,
           campaign_objective |-> "sales", status |-> "inactive"]>>,
     ads |->
        <<[ad_id |-> 1, campaign_id |-> 1, name |-> <<"T", "o", "p">>,
           status |-> "active",
           creative_type |-> "image", thumbnail_url |-> "thumb"],
          [ad_id |-> 2, campaign_id |-> 1, name |-> <<"L", "o", "w">>,
           status |-> "inactive",
           creative_type |-> "image", thumbnail_url |-> "thumb"],
          [ad_id |-> 3, campaign_id |-> 2, name |-> <<"S", "U", "N", "N", "Y">>,
           status |-> "active",
           creative_type |-> "image", thumbnail_url |-> "thumb"],
          [ad_id |-> 4, campaign_id |-> 3, name |-> <<"s", "u", "n", "s">>,
           status |-> "active",
           creative_type |-> "image", thumbnail_url |-> "thumb"],
          [ad_id |-> 5, campaign_id |-> 3, name |-> <<"M", "i", "d">>,
           status |-> "inactive",
           creative_type |-> "image", thumbnail_url |-> "thumb"]>>,
     insights |->
        <<Insight(1, 1, 1, 100, 5, 10),
          Insight(2, 1, 1, 200, 0, 30),
          Insight(3, 2, 2, 0, 0, 70),
          Insight(4, 3, 2, 50, 1, 20),
          Insight(5, 3, 2, 300, 9, 60),
          Insight(1, 1, 3, 400, 2, 40),
          Insight(4, 3, 3, 10, 0, 5)>>]

\* One campaign with n ads of one insight row each; the spends repeat, so
\* that some rows tie.
WideSpend(i) == ((i * 7) % 11) * 10

WideDb(n) ==
    [campaigns |->
        <<[campaign_id |-> 1, campaign_name |-> SunName,
           campaign_objective |-> "sales", status |-> "active"]>>,
     ads |->
        [i \in 1..n |->
            [ad_id |-> i, campaign_id |-> 1, name |-> <<"a", "d">>,
             status |-> "active",
           creative_type |-> "image", thumbnail_url |-> "thumb"]],
     insights |->
        [i \in 1..n |->
            Insight(i, 1, 1, i, 0, WideSpend(i))]]

\* The measures of one day as the Insight row of an ad.
InsightOn(ad, campaign, date, day) ==
    [ad_id |-> ad, campaign_id |-> campaign, date |-> date] @@ day

\* Two sales campaigns: 'Sun' with an ad of two days (spend 100, daily CPA 2)
\* and an ad of one day (spend 300, CPA 6); 'Star' with one ad of three days
\* whose daily CTR is 1, 2 and 3; and a campaign without spend.
KpiDb ==
    [campaigns |->
        <<[campaign_id |-> 1, campaign_name |-> SunName,
           campaign_objective |-> "sales", status |-> "active"],
          [campaign_id |-> 2, campaign_name |-> StarName,
           campaign_objective |-> "sales", status |-> "active"],
          [campaign_id |-> 3, campaign_name |-> MoonName,
           campaign_objective |-> "sales", status |-> "inactive"]>>,
     ads |->
        [i \in 1..5 |->
            [ad_id |-> i, campaign_id |-> <<1, 1, 2, 3, 3>>[i],
             name |-> <<"a", "d">>, status |-> "active",
             creative_type |-> "video", thumbnail_url |-> "thumb"]],
     insights |->
        <<InsightOn(1, 1, 1, Day(1000, 10, 40, 20, 800, 100, 2, 80)),
          InsightOn(2, 1, 1, Day(500, 0, 300, 50, 0, 0, 0, 150)),
          InsightOn(3, 2, 1, Day(100, 1, 5, 0, 90, 50, 1, 0)),
          InsightOn(1, 1, 2, Day(2000, 40, 60, 30, 900, 0, 8, 30)),
          InsightOn(3, 2, 2, Day(50, 1, 0, 1, 50, 10, 0, 7)),
          InsightOn(4, 3, 2, Day(10, 1, 0, 0, 10, 0, 0, 0)),
          InsightOn(3, 2, 3, Day(200, 6, 25, 5, 0, 20, 3, 100)),
          InsightOn(5, 3, 3, Day(0, 0, 0, 0, 0, 0, 0, 0))>>]

CampaignOf(db, insight) ==
    db.campaigns[CHOOSE i \in 1..Len(db.campaigns) :
                    db.campaigns[i].campaign_id = insight.campaign_id]

AdOf(db, insight) ==
    db.ads[CHOOSE i \in 1..Len(db.ads) : db.ads[i].ad_id = insight.ad_id]

NoStatus == ""

NoSearch == <<>>

NoSorting == [direction |-> "none"]

\* The where clause with a second search branch that leaves the campaign
\* objective out.
MatchesSearchBypassesObjective(db, req, insight) ==
    LET f == req.filters
        campaign == CampaignOf(db, insight)
        ad == AdOf(db, insight)
        objective == campaign.campaign_objective = f.campaignObjective
        campaignStatus ==
            (f.status # NoStatus /\ req.grouping = "campaign")
                => campaign.status = f.status
        adStatus ==
            (f.status # NoStatus /\ req.grouping = "ad") => ad.status = f.status
    IN  /\ insight.date >= f.from
        /\ insight.date <= f.to
        /\ IF f.search # NoSearch
           THEN \/ /\ objective
                   /\ Contains(campaign.campaign_name, f.search)
                   /\ campaignStatus
                \/ /\ campaignStatus
                   /\ Contains(ad.name, f.search)
                   /\ adStatus
           ELSE objective /\ campaignStatus /\ adStatus

\* The where clause of the findMany, applied to one insight row.
Matches(db, req, insight) ==
    LET f == req.filters
        campaign == CampaignOf(db, insight)
        ad == AdOf(db, insight)
        objective == campaign.campaign_objective = f.campaignObjective
        campaignStatus ==
            (f.status # NoStatus /\ req.grouping = "campaign")
                => campaign.status = f.status
        adStatus ==
            (f.status # NoStatus /\ req.grouping = "ad") => ad.status = f.status
    IN  /\ insight.date >= f.from
        /\ insight.date <= f.to
        /\ IF f.search # NoSearch
           THEN \/ /\ objective
                   /\ Contains(campaign.campaign_name, f.search)
                   /\ campaignStatus
                \/ /\ objective
                   /\ campaignStatus
                   /\ Contains(ad.name, f.search)
                   /\ adStatus
           ELSE objective /\ campaignStatus /\ adStatus

\* const insights = await query
Selected(db, req) == SelectSeq(db.insights, LAMBDA x : Matches(db, req, x))

\* The key of the group of an insight row; <<ad, campaign>> stands for the
\* string `${ad_id}_${campaign_id}`.
KeyOf(req, insight) ==
    IF req.grouping = "campaign"
    THEN <<insight.campaign_id>>
    ELSE <<insight.ad_id, insight.campaign_id>>

NewGroup(db, req, insight) ==
    LET campaign == CampaignOf(db, insight)
        ad == AdOf(db, insight)
        common ==
            [key |-> KeyOf(req, insight),
             campaign_id |-> insight.campaign_id,
             campaign_name |-> campaign.campaign_name,
             campaign_objective |-> campaign.campaign_objective,
             status |-> IF req.grouping = "campaign"
                        THEN campaign.status
                        ELSE ad.status,
             dailyData |-> <<>>]
    IN  IF req.grouping = "ad"
        THEN common @@ [ad_id |-> insight.ad_id, ad_name |-> ad.name,
                        creative_type |-> ad.creative_type,
                        thumbnail_url |-> ad.thumbnail_url]
        ELSE common

\* The grouping loop: the groups in the order their first row is met.
RECURSIVE GroupRows(_, _, _, _, _)
GroupRows(db, req, insights, i, grouped) ==
    IF i > Len(insights)
    THEN grouped
    ELSE LET insight == insights[i]
             key == KeyOf(req, insight)
             known == \E g \in 1..Len(grouped) : grouped[g].key = key
             withKey == IF known
                        THEN grouped
                        ELSE Append(grouped, NewGroup(db, req, insight))
             at == CHOOSE g \in 1..Len(withKey) : withKey[g].key = key
         IN  GroupRows(db, req, insights, i + 1,
                       [withKey EXCEPT ![at].dailyData = Append(@, insight)])

RECURSIVE SumOf(_, _, _)
SumOf(days, measure, i) ==
    IF i > Len(days) THEN 0 ELSE days[i][measure] + SumOf(days, measure, i + 1)

Totals(group) == [m \in Measures |-> SumOf(group.dailyData, m, 1)]

\* JavaScript numbers: a fraction n/d in lowest terms with d > 0, NaN or
\* Infinity.  The measures are counts and amounts, never negative, so that
\* -Infinity does not arise.  Fractions are exact; the rounding of doubles is
\* not modelled.
RECURSIVE Gcd(_, _)
Gcd(a, b) == IF b = 0 THEN a ELSE Gcd(b, a % b)

Abs(x) == IF x < 0 THEN -x ELSE x

Fraction(n, d) ==
    LET g == Gcd(Abs(n), Abs(d))
        sign == IF d < 0 THEN -1 ELSE 1
    IN  [kind |-> "number", n |-> (sign * n) \div g, d |-> (sign * d) \div g]

NaN == [kind |-> "NaN"]

Infinity == [kind |-> "Infinity"]

Whole(i) == Fraction(i, 1)

Zero == Whole(0)

IsFinite(x) == x.kind = "number"

\* a + b
Plus(a, b) ==
    IF a = NaN \/ b = NaN THEN NaN
    ELSE IF a = Infinity \/ b = Infinity THEN Infinity
    ELSE Fraction(a.n * b.d + b.n * a.d, a.d * b.d)

\* a * b
Times(a, b) ==
    IF a = NaN \/ b = NaN THEN NaN
    ELSE IF a = Infinity \/ b = Infinity
    THEN IF a = Zero \/ b = Zero THEN NaN ELSE Infinity
    ELSE Fraction(a.n * b.n, a.d * b.d)

\* a / b
Over(a, b) ==
    IF a = NaN \/ b = NaN THEN NaN
    ELSE IF a = Infinity THEN (IF b = Infinity THEN NaN ELSE Infinity)
    ELSE IF b = Infinity THEN Zero
    ELSE IF b = Zero THEN (IF a = Zero THEN NaN ELSE Infinity)
    ELSE Fraction(a.n * b.d, a.d * b.n)

\* The sign of a - b for finite a and b.
Difference(a, b) == a.n * b.d - b.n * a.d

KpiNames ==
    {"cpm", "cpr", "ctr", "cpc", "view_rate", "cpv", "cpl", "lead_conv_rate",
     "roas", "cpa"}

ZeroKPIs == [k \in KpiNames |-> Zero]

\* calculateDailyKPIs(impressions, clicks, ...); the constant date: "" is
\* left out.
CalculateDailyKPIs(day) ==
    LET of(m) == Whole(day[m])
    IN  [cpm |-> IF day.impressions > 0
                 THEN Times(Over(of("spend"), of("impressions")), Whole(1000))
                 ELSE Zero,
         cpr |-> IF day.reach > 0
                 THEN Times(Over(of("spend"), of("reach")), Whole(1000))
                 ELSE Zero,
         ctr |-> IF day.impressions > 0
                 THEN Times(Over(of("clicks"), of("impressions")), Whole(100))
                 ELSE Zero,
         cpc |-> IF day.clicks > 0
                 THEN Over(of("spend"), of("clicks"))
                 ELSE Zero,
         view_rate |->
                 IF day.impressions > 0
                 THEN Times(Over(of("video_views"), of("impressions")),
                            Whole(100))
                 ELSE Zero,
         cpv |-> IF day.video_views > 0
                 THEN Over(of("spend"), of("video_views"))
                 ELSE Zero,
         cpl |-> IF day.leads > 0
                 THEN Over(of("spend"), of("leads"))
                 ELSE Zero,
         lead_conv_rate |->
                 IF day.clicks > 0
                 THEN Times(Over(of("leads"), of("clicks")), Whole(100))
                 ELSE Zero,
         roas |-> IF day.spend > 0
                  THEN Over(of("conversion_value"), of("spend"))
                  ELSE Zero,
         cpa |-> IF day.conversions > 0
                 THEN Over(of("spend"), of("conversions"))
                 ELSE Zero]

\* kpis.reduce((sum, k) => sum + k[name], 0)
RECURSIVE SumKpi(_, _, _)
SumKpi(kpis, name, i) ==
    IF i = 0
    THEN Zero
    ELSE Plus(SumKpi(kpis, name, i - 1), kpis[i][name])

\* averageDailyKPIs without the early return for no days.
AverageDailyKPIsUnguarded(kpis) ==
    [k \in KpiNames |-> Over(SumKpi(kpis, k, Len(kpis)), Whole(Len(kpis)))]

\* averageDailyKPIs(kpis)
AverageDailyKPIs(kpis) ==
    IF Len(kpis) = 0
    THEN ZeroKPIs
    ELSE [k \in KpiNames |->
            Over(SumKpi(kpis, k, Len(kpis)), Whole(Len(kpis)))]

\* adKPIs.reduce((sum, ad) => sum + ad.spend, 0)
RECURSIVE SumSpend(_, _)
SumSpend(adKPIs, i) ==
    IF i = 0 THEN Zero ELSE Plus(SumSpend(adKPIs, i - 1), adKPIs[i].spend)

\* adKPIs.reduce((sum, ad) => sum + ad.kpis[name] * ad.spend, 0)
RECURSIVE SumWeighted(_, _, _)
SumWeighted(adKPIs, name, i) ==
    IF i = 0
    THEN Zero
    ELSE Plus(SumWeighted(adKPIs, name, i - 1),
              Times(adKPIs[i].kpis[name], adKPIs[i].spend))

\* weightedAverageKPIs with every ad given the same weight.
WeightedAverageKPIsUnweighted(adKPIs) ==
    AverageDailyKPIs([i \in 1..Len(adKPIs) |-> adKPIs[i].kpis])

\* weightedAverageKPIs(adKPIs)
WeightedAverageKPIs(adKPIs) ==
    LET totalSpend == SumSpend(adKPIs, Len(adKPIs))
    IN  IF totalSpend = Zero
        THEN ZeroKPIs
        ELSE [k \in KpiNames |->
                Over(SumWeighted(adKPIs, k, Len(adKPIs)), totalSpend)]

AdOnlyColumns == {"ad_name", "creative_type", "thumbnail_url"}

TextColumns == {"campaign_name", "ad_name"}

GroupColumns ==
    {"campaign_name", "campaign_objective", "status"} \cup AdOnlyColumns

\* The ads of a group in the order their first day is met (adGroups).
RECURSIVE AdOrder(_, _, _)
AdOrder(days, i, order) ==
    IF i > Len(days)
    THEN order
    ELSE AdOrder(days, i + 1,
                 IF \E o \in 1..Len(order) : order[o] = days[i].ad_id
                 THEN order
                 ELSE Append(order, days[i].ad_id))

AdDays(days, ad) == SelectSeq(days, LAMBDA day : day.ad_id = ad)

DailyKPIs(days) == [d \in 1..Len(days) |-> CalculateDailyKPIs(days[d])]

\* The KPIs of a group computed from its summed measures.
GroupKPIsOfTotals(req, group) == CalculateDailyKPIs(Totals(group))

\* The KPIs of a group: the mean of its daily KPIs for an ad, the
\* spend-weighted mean of the per-ad means for a campaign.
GroupKPIs(req, group) ==
    IF req.grouping = "ad"
    THEN AverageDailyKPIs(DailyKPIs(group.dailyData))
    ELSE LET order == AdOrder(group.dailyData, 1, <<>>)
             adKPIs ==
                [a \in 1..Len(order) |->
                    LET adDays == AdDays(group.dailyData, order[a])
                    IN  [kpis |-> AverageDailyKPIs(DailyKPIs(adDays)),
                         spend |-> Whole(SumOf(adDays, "spend", 1))]]
         IN  WeightedAverageKPIs(adKPIs)

\* The result object of one group: only the requested columns.  `group` is
\* not a field of the response; it records which group the row came from.
Project(req, group) ==
    LET totals == Totals(group)
        kpis == GroupKPIs(req, group)
        requested == {req.columns[i] : i \in 1..Len(req.columns)}
        present ==
            {c \in requested :
                /\ c \in GroupColumns \cup Measures \cup KpiNames
                /\ c \in AdOnlyColumns => req.grouping = "ad"}
    IN  [cols |-> [c \in present |->
                     IF c \in Measures THEN totals[c]
                     ELSE IF c \in KpiNames THEN kpis[c]
                     ELSE group[c]],
         group |-> group.key]

\* Number(row[field] ?? 0) || 0
NumberOf(row, field) ==
    IF field \notin DOMAIN row.cols THEN Zero
    ELSE IF field \in Measures THEN Whole(row.cols[field])
    ELSE IF field \in KpiNames /\ row.cols[field] # NaN THEN row.cols[field]
    ELSE Zero

\* The sign of a - b, 0 standing for NaN as well.
Subtract(a, b) ==
    IF a = Infinity THEN (IF b = Infinity THEN 0 ELSE 1)
    ELSE IF b = Infinity THEN -1
    ELSE Difference(a, b)

\* The comparator of results.sort.
CompareRows(sorting, a, b) ==
    LET field == sorting.field
        textual == /\ field \in TextColumns
                   /\ field \in DOMAIN a.cols
                   /\ field \in DOMAIN b.cols
        numA == NumberOf(a, field)
        numB == NumberOf(b, field)
    IN  IF textual
        THEN IF sorting.direction = "asc"
             THEN LocaleCompare(a.cols[field], b.cols[field])
             ELSE LocaleCompare(b.cols[field], a.cols[field])
        ELSE IF sorting.direction = "asc"
             THEN Subtract(numA, numB)
             ELSE Subtract(numB, numA)

\* Array.prototype.sort is stable: a row goes behind every row that does
\* not compare greater.
InsertRow(sorting, sorted, row) ==
    LET before == Cardinality({i \in 1..Len(sorted) :
                                  CompareRows(sorting, sorted[i], row) <= 0})
    IN  SubSeq(sorted, 1, before) \o <<row>>
            \o SubSeq(sorted, before + 1, Len(sorted))

RECURSIVE SortRows(_, _, _, _)
SortRows(sorting, rows, i, sorted) ==
    IF i > Len(rows)
    THEN sorted
    ELSE SortRows(sorting, rows, i + 1, InsertRow(sorting, sorted, rows[i]))

\* Array.prototype.slice(start, end)
Slice(seq, start, end) ==
    LET len == Len(seq)
        from == IF start < 0 THEN Max(len + start, 0) ELSE Min(start, len)
        to == IF end < 0 THEN Max(len + end, 0) ELSE Min(end, len)
    IN  IF from >= to THEN <<>> ELSE SubSeq(seq, from + 1, to)

\* A page window that starts one page too far.
PageStartOneBased(pagination) == pagination.page * pagination.pageSize

PageStart(pagination) == (pagination.page - 1) * pagination.pageSize

\* Math.ceil(totalRows / pageSize), also for a page size that is not positive.
TotalPagesOf(totalRows, pageSize) ==
    IF pageSize > 0 THEN CeilDiv(totalRows, pageSize)
    ELSE IF pageSize < 0 THEN -(totalRows \div (-pageSize))
    ELSE IF totalRows = 0 THEN NaN
    ELSE Infinity

\* getPerformance(request) over the tables db.  The response is data and
\* meta; insights, groups and rows are the intermediate values of the call.
GetPerformance(db, req) ==
    LET insights == Selected(db, req)
        grouped == GroupRows(db, req, insights, 1, <<>>)
        results == [g \in 1..Len(grouped) |-> Project(req, grouped[g])]
        sorted == IF req.sorting # NoSorting
                  THEN SortRows(req.sorting, results, 1, <<>>)
                  ELSE results
        totalRows == Len(sorted)
        start == PageStart(req.pagination)
    IN  [insights |-> insights,
         groups |-> grouped,
         rows |-> sorted,
         data |-> Slice(sorted, start, start + req.pagination.pageSize),
         meta |-> [totalRows |-> totalRows,
                   page |-> req.pagination.page,
                   pageSize |-> req.pagination.pageSize,
                   totalPages |-> TotalPagesOf(totalRows,
                                              req.pagination.pageSize)]]

\* One request is answered.
PerfCall ==
    /\ pq.pc = "called"
    /\ pq' = [pc |-> "done", db |-> pq.db, req |-> pq.req,
              result |-> GetPerformance(pq.db, pq.req)]
    /\ UNCHANGED <<rt, pg, hp, sideVars, syncVars>>

----------------------------------------------------------------------------
(* getPerformance observed alone: one request over fixed tables *)

SearchTexts == {NoSearch, <<"s", "u", "n">>, <<"o">>}

AllColumns ==
    <<"campaign_name", "campaign_objective", "status", "ad_name",
      "creative_type", "thumbnail_url", "impressions", "clicks", "spend",
      "conversions", "reach", "video_views", "leads", "conversion_value",
      "cpm", "cpr", "ctr", "cpc", "view_rate", "cpv", "cpl", "lead_conv_rate",
      "roas", "cpa">>

Sortings ==
    {NoSorting,
     [field |-> "spend", direction |-> "desc"],
     [field |-> "spend", direction |-> "asc"],
     [field |-> "campaign_name", direction |-> "asc"],
     [field |-> "ad_name", direction |-> "desc"]}

\* Requests over the small tables: every filter combination.
SmallRequests ==
    [grouping : {"campaign", "ad"},
     filters : [from : {1, 2}, to : {3},
                status : {NoStatus, "active", "inactive"},
                campaignObjective : {"sales", "leads"},
                search : SearchTexts],
     pagination : [page : {1, 2}, pageSize : {1, 10}],
     sorting : Sortings,
     columns : {AllColumns, <<"campaign_name">>}]

WideSizes == {0, 1, 10, 24, 25, 26}

\* Requests over the wide tables: every page of every size.
WideRequests ==
    [grouping : {"campaign", "ad"},
     filters : [from : {1}, to : {1}, status : {NoStatus},
                campaignObjective : {"sales"}, search : {NoSearch}],
     pagination : [page : 1..4, pageSize : {1, 10, 25}],
     sorting : {NoSorting,
                [field |-> "spend", direction |-> "desc"],
                [field |-> "spend", direction |-> "asc"]},
     columns : {<<"ad_name", "spend">>, <<"ad_name", "impressions">>}]

\* Requests over the KPI tables: both groupings, two date ranges.
KpiRequests ==
    [grouping : {"campaign", "ad"},
     filters : [from : {1, 2}, to : {2, 3}, status : {NoStatus, "active"},
                campaignObjective : {"sales"}, search : {NoSearch}],
     pagination : [page : {1}, pageSize : {2, 10}],
     sorting : {NoSorting,
                [field |-> "cpa", direction |-> "desc"],
                [field |-> "ctr", direction |-> "asc"]},
     columns : {AllColumns, <<"ad_name", "spend", "cpa", "ctr">>}]

InitPerf ==
    /\ \/ \E req \in SmallRequests :
            pq = [pc |-> "called", db |-> SmallDb, req |-> req]
       \/ \E req \in KpiRequests :
            pq = [pc |-> "called", db |-> KpiDb, req |-> req]
       \/ \E n \in WideSizes, req \in WideRequests :
            pq = [pc |-> "called", db |-> WideDb(n), req |-> req]
    /\ rt = RetryIdle
    /\ pg = NoPager
    /\ hp = InitialHeap
    /\ SideIdle
    /\ ServerInit(QuietEnv, Dataset)

NextPerf == PerfCall

SpecPerf == InitPerf /\ [][NextPerf]_vars

----------------------------------------------------------------------------
(* The KPI calculator observed alone: the days of some ads go through     *)
(* calculateDailyKPIs, averageDailyKPIs and weightedAverageKPIs.          *)

MeasureValues == {0, 1, 3}

\* Every combination of the eight measures.
AnyDays == [Measures -> MeasureValues]

SomeDays ==
    {Day(0, 0, 0, 0, 0, 0, 0, 0),
     Day(0, 0, 40, 0, 0, 0, 0, 9),
     Day(100, 5, 0, 2, 80, 10, 1, 0),
     Day(200, 8, 60, 4, 150, 0, 3, 90)}

DayLists == {<<>>} \cup [1..1 -> SomeDays] \cup [1..2 -> SomeDays]

AdLists == [1..1 -> DayLists] \cup [1..2 -> DayLists]

\* const dailyKPIs = days.map(day => calculateDailyKPIs(...)), per ad
DailyCall ==
    /\ kp.pc = "called"
    /\ kp' = [pc |-> "daily", ads |-> kp.ads,
              daily |-> [a \in 1..Len(kp.ads) |->
                           [d \in 1..Len(kp.ads[a]) |->
                              CalculateDailyKPIs(kp.ads[a][d])]]]
    /\ UNCHANGED <<rt, pg, hp, pq, pn, rq, cl, syncVars>>

\* averageDailyKPIs(dailyKPIs), per ad, and the ad's total spend
AverageCall ==
    /\ kp.pc = "daily"
    /\ kp' = [pc |-> "averaged", ads |-> kp.ads, daily |-> kp.daily,
              adKPIs |-> [a \in 1..Len(kp.ads) |->
                            [kpis |-> AverageDailyKPIs(kp.daily[a]),
                             spend |-> Whole(SumOf(kp.ads[a], "spend", 1))]]]
    /\ UNCHANGED <<rt, pg, hp, pq, pn, rq, cl, syncVars>>

\* weightedAverageKPIs(adKPIs)
WeightedCall ==
    /\ kp.pc = "averaged"
    /\ kp' = [pc |-> "weighted", ads |-> kp.ads, daily |-> kp.daily,
              adKPIs |-> kp.adKPIs,
              kpis |-> WeightedAverageKPIs(kp.adKPIs)]
    /\ UNCHANGED <<rt, pg, hp, pq, pn, rq, cl, syncVars>>

InitKpi ==
    /\ \/ \E day \in AnyDays : kp = [pc |-> "called", ads |-> <<<<day>>>>]
       \/ \E ads \in AdLists : kp = [pc |-> "called", ads |-> ads]
    /\ rt = RetryIdle
    /\ pg = NoPager
    /\ hp = InitialHeap
    /\ pq = NoQuery
    /\ pn = NoPage
    /\ rq = NoPost
    /\ cl = NoClient
    /\ ServerInit(QuietEnv, Dataset)

NextKpi ==
    \/ DailyCall
    \/ AverageCall
    \/ WeightedCall

SpecKpi == InitKpi /\ [][NextKpi]_vars

----------------------------------------------------------------------------
(* The performance route observed alone: one client posts a body, once or *)
(* again, and the route answers from the cache or from getPerformance.    *)

Thrown == [threw |-> TRUE]

\* What the call getPerformance(body) does with a body that may lack fields:
\* reading filters.dateRange, iterating columns for a group, or reading
\* pagination.pageSize throws a TypeError.
GetPerformanceOrThrow(db, body) ==
    IF "filters" \notin DOMAIN body THEN Thrown
    ELSE IF "columns" \notin DOMAIN body /\ Selected(db, body) # <<>>
    THEN Thrown
    ELSE IF "pagination" \notin DOMAIN body THEN Thrown
    ELSE [threw |-> FALSE,
          result |-> GetPerformance(db, body @@ [sorting |-> NoSorting,
                                                 columns |-> <<>>])]

MaxPosts == 2

\* The route up to its await: the key of the body, the cache lookup, a hit
\* answered from the cache, a miss calling getPerformance.
PostArrives ==
    /\ rq.pc \in {"posted", "replied"}
    /\ rq.posts < MaxPosts
    /\ LET g == CacheGet(rq.cache, rq.body, now)
       IN  rq' = IF g.hit
                 THEN [rq EXCEPT !.pc = "replied", !.posts = @ + 1,
                                 !.cache = g.cache,
                                 !.reply = [status |-> 200, cached |-> TRUE,
                                            body |-> g.data]]
                 ELSE [rq EXCEPT !.pc = "engine", !.posts = @ + 1,
                                 !.cache = g.cache, !.calls = @ + 1]
    /\ UNCHANGED <<rt, pg, hp, pq, kp, pn, cl, syncVars>>

\* The route after its await: the result is cached and sent, or the catch
\* block answers 500.
RouteSettled(r, outcome) ==
    IF outcome.threw
    THEN [r EXCEPT !.pc = "replied", !.reply = [status |-> 500]]
    ELSE [r EXCEPT !.pc = "replied",
                   !.cache = CacheSet(r.cache, r.body, outcome.result,
                                      CACHE_TTL_MS, now),
                   !.reply = [status |-> 200, cached |-> FALSE,
                              body |-> outcome.result]]

\* getPerformance settles, with a result or with an exception.
EngineSettles ==
    /\ rq.pc = "engine"
    /\ \E outcome \in {GetPerformanceOrThrow(rq.db, rq.body)} :
          rq' = RouteSettled(rq, outcome)
    /\ UNCHANGED <<rt, pg, hp, pq, kp, pn, cl, syncVars>>

RouteFilters ==
    [from : {1}, to : {3}, status : {NoStatus},
     campaignObjective : {"sales", "leads"}, search : {NoSearch}]

\* Bodies with every field, the page and the page size positive or not.
FullBodies ==
    [grouping : {"campaign", "ad"}, filters : RouteFilters,
     pagination : [page : {-1, 0, 1, 2}, pageSize : {-1, 0, 1, 10}],
     columns : {<<"campaign_name", "spend">>}]

\* Bodies that lack one of the fields.
PartBodies ==
    [grouping : {"campaign", "ad"},
     pagination : [page : {1}, pageSize : {10}],
     columns : {<<"campaign_name", "spend">>}]
    \cup [grouping : {"campaign", "ad"}, filters : RouteFilters,
          columns : {<<"campaign_name", "spend">>}]
    \cup [grouping : {"campaign", "ad"}, filters : RouteFilters,
          pagination : [page : {1}, pageSize : {10}]]

RouteBodies == FullBodies \cup PartBodies

InitRoute ==
    /\ \E db \in {SmallDb, WideDb(0)}, body \in RouteBodies :
        rq = [pc |-> "posted", db |-> db, body |-> body, posts |-> 0,
              calls |-> 0, cache |-> [b \in {body} |-> NoEntry],
              reply |-> [status |-> 0]]
    /\ rt = RetryIdle
    /\ pg = NoPager
    /\ hp = InitialHeap
    /\ pq = NoQuery
    /\ kp = NoKpi
    /\ pn = NoPage
    /\ cl = NoClient
    /\ ServerInit(QuietEnv, Dataset)

NextRoute ==
    \/ PostArrives
    \/ EngineSettles

SpecRoute == InitRoute /\ [][NextRoute]_vars

----------------------------------------------------------------------------
(* The data server's paginate observed alone: pages of one list are asked *)
(* for in any order.                                                      *)

\* paginate with a page count that is not raised to 1.
PaginateNoPageOfEmpty(items, page) ==
    LET safePage == Max(1, page)
        start == (safePage - 1) * PAGE_SIZE
    IN  [data |-> Slice(items, start, start + PAGE_SIZE),
         pagination |-> [page |-> safePage, pageSize |-> PAGE_SIZE,
                         totalPages |-> CeilDiv(Len(items), PAGE_SIZE)]]

\* paginate(items, page) for a whole number page.
Paginate(items, page) ==
    LET safePage == Max(1, page)
        totalPages == Max(1, CeilDiv(Len(items), PAGE_SIZE))
        start == (safePage - 1) * PAGE_SIZE
        end == start + PAGE_SIZE
    IN  [data |-> Slice(items, start, end),
         pagination |-> [page |-> safePage, pageSize |-> PAGE_SIZE,
                         totalPages |-> totalPages]]

\* Lengths of the list: empty, one item, and around the page boundaries.
ListSizes == {0, 1, 99, 100, 101, 199, 200, 201, 250, 300, 301}

\* The items are told apart by their ids 1..n.
Items(n) == [i \in 1..n |-> i]

\* The pages that are asked for: the pages of the list and two beyond.
PageArgs(n) == 1..(CeilDiv(n, PAGE_SIZE) + 2)

PaginateCall(page) ==
    /\ pn.pc = "serving"
    /\ page \notin DOMAIN pn.results
    /\ pn' = [pn EXCEPT !.results =
                 @ @@ [q \in {page} |-> Paginate(pn.items, page)]]
    /\ UNCHANGED <<rt, pg, hp, pq, kp, rq, cl, syncVars>>

InitPaginate ==
    /\ \E n \in ListSizes :
        pn = [pc |-> "serving", items |-> Items(n), results |-> <<>>]
    /\ rt = RetryIdle
    /\ pg = NoPager
    /\ hp = InitialHeap
    /\ pq = NoQuery
    /\ kp = NoKpi
    /\ rq = NoPost
    /\ cl = NoClient
    /\ ServerInit(QuietEnv, Dataset)

NextPaginate == \E page \in PageArgs(Len(pn.items)) : PaginateCall(page)

SpecPaginate == InitPaginate /\ [][NextPaginate]_vars

----------------------------------------------------------------------------
(* The dashboard client: PerformanceProvider *)

\* The most performance requests one dashboard session issues.
MaxFetches == 3

\* data before the first response.
NoData == [kind |-> "null"]

\* The state of the provider at its first render: no objective and no
\* columns are selected, so the effect issues no request.  Of the filters
\* only the campaign objective is kept.
InitialProvider ==
    [pc |-> "open", data |-> NoData, loading |-> FALSE, error |-> NoError,
     grouping |-> "campaign", campaignObjective |-> "",
     selectedColumns |-> <<>>, page |-> 1, pageSize |-> 10,
     sorting |-> NoSorting, fetches |-> <<>>]

\* The body fetchData posts.
BodyOf(c) ==
    [grouping |-> c.grouping,
     filters |-> [campaignObjective |-> c.campaignObjective],
     pagination |-> [page |-> c.page, pageSize |-> c.pageSize],
     sorting |-> c.sorting,
     columns |-> c.selectedColumns]

\* What the server answers to a body.
ResponseTo(body) == [kind |-> "data", of |-> body]

\* fetchData() up to its await.
FetchData(c) ==
    IF c.campaignObjective = "" \/ Len(c.selectedColumns) = 0
    THEN [c EXCEPT !.data = NoData]
    ELSE [c EXCEPT
            !.loading = TRUE,
            !.error = NoError,
            !.fetches = Append(@, [body |-> BodyOf(c), state |-> "pending"])]

\* The effect that runs after a render in which a dependency has changed.
AutoFetch(c) ==
    IF c.campaignObjective # "" /\ Len(c.selectedColumns) > 0
    THEN FetchData(c)
    ELSE c

\* The values the controls of the dashboard are set to.
ClientGroupings == {"campaign", "ad"}

ClientObjectives == {"", "SALES"}

ClientColumns == {<<>>, <<"spend">>}

ClientPages == {1, 2}

ClientPageSizes == {10, 25}

ClientSortings == {NoSorting, [field |-> "spend", direction |-> "desc"]}

\* A setter is called with a new value and the provider renders again.
Rendered(c) ==
    /\ cl.pc = "open"
    /\ Len(cl.fetches) < MaxFetches
    /\ cl' = AutoFetch(c)
    /\ UNCHANGED <<rt, pg, hp, pq, kp, pn, rq, syncVars>>

SetGrouping(grouping) ==
    /\ grouping # cl.grouping
    /\ Rendered([cl EXCEPT !.grouping = grouping])

\* setFilters is called with a new object, equal to the old one or not.
SetFilters(campaignObjective) ==
    /\ campaignObjective \in ClientObjectives
    /\ Rendered([cl EXCEPT !.campaignObjective = campaignObjective])

\* setSelectedColumns is called with a new array.
SetSelectedColumns(columns) ==
    /\ columns \in ClientColumns
    /\ Rendered([cl EXCEPT !.selectedColumns = columns])

SetPage(page) ==
    /\ page # cl.page
    /\ Rendered([cl EXCEPT !.page = page])

SetPageSize(pageSize) ==
    /\ pageSize # cl.pageSize
    /\ Rendered([cl EXCEPT !.pageSize = pageSize])

\* setSorting is called with a new object or with null.
SetSorting(sorting) ==
    /\ sorting = NoSorting => cl.sorting # NoSorting
    /\ Rendered([cl EXCEPT !.sorting = sorting])

\* A consumer of the context calls fetchData().
FetchDataCalled ==
    /\ cl.pc = "open"
    /\ Len(cl.fetches) < MaxFetches
    /\ cl' = FetchData(cl)
    /\ UNCHANGED <<rt, pg, hp, pq, kp, pn, rq, syncVars>>

\* The request of fetch i is answered with a 2xx response and its JSON.
ResponseArrives(i) ==
    /\ cl.pc = "open"
    /\ i \in 1..Len(cl.fetches)
    /\ cl.fetches[i].state = "pending"
    /\ cl' = [cl EXCEPT !.data = ResponseTo(cl.fetches[i].body),
                        !.loading = FALSE,
                        !.fetches[i].state = "ok"]
    /\ UNCHANGED <<rt, pg, hp, pq, kp, pn, rq, syncVars>>

\* The request of fetch i fails or is answered with another status.
ResponseFails(i) ==
    /\ cl.pc = "open"
    /\ i \in 1..Len(cl.fetches)
    /\ cl.fetches[i].state = "pending"
    /\ cl' = [cl EXCEPT !.error = "HTTP error",
                        !.loading = FALSE,
                        !.fetches[i].state = "failed"]
    /\ UNCHANGED <<rt, pg, hp, pq, kp, pn, rq, syncVars>>

InitClient ==
    /\ rt = RetryIdle
    /\ pg = NoPager
    /\ hp = InitialHeap
    /\ pq = NoQuery
    /\ kp = NoKpi
    /\ pn = NoPage
    /\ rq = NoPost
    /\ cl = InitialProvider
    /\ ServerInit(QuietEnv, Dataset)

NextClient ==
    \/ \E grouping \in ClientGroupings : SetGrouping(grouping)
    \/ \E objective \in ClientObjectives : SetFilters(objective)
    \/ \E columns \in ClientColumns : SetSelectedColumns(columns)
    \/ \E page \in ClientPages : SetPage(page)
    \/ \E pageSize \in ClientPageSizes : SetPageSize(pageSize)
    \/ \E sorting \in ClientSortings : SetSorting(sorting)
    \/ FetchDataCalled
    \/ \E i \in 1..MaxFetches : ResponseArrives(i)
    \/ \E i \in 1..MaxFetches : ResponseFails(i)

SpecClient == InitClient /\ [][NextClient]_vars

----------------------------------------------------------------------------
(* Claims about the retry policy *)

AllAnswers(status) == \A i \in 1..Len(rt.hist) : rt.hist[i] = status

\* C1: fetchWithRetry executes the page fetch at most maxRetries times for
\* every sequence of answers, and when every answer is a 500 it executes it
\* exactly maxRetries times and then fails.
C1_AtMostMaxRetries ==
    /\ rt.calls <= rt.maxRetries
    /\ rt.calls = Len(rt.hist)
    /\ (AllAnswers(500) /\ rt.result # "running"
            => rt.calls = rt.maxRetries /\ rt.result = "thrown")
    /\ (AllAnswers(500) /\ rt.calls = rt.maxRetries => rt.result = "thrown")

C1_Witness ==
    /\ rt.maxRetries = DefaultMaxRetries
    /\ rt.calls = DefaultMaxRetries
    /\ AllAnswers(500)
    /\ rt.result = "thrown"
    /\ rt.error = "Internal Server Error after retries"

\* C2: a non-success answer other than 429 and 500 (a 404) makes
\* fetchWithRetry fail at once: the 404 is the last answer of the call, the
\* call has thrown and no backoff sleep follows it.
C2_NonRetryableFailsAtOnce ==
    \A i \in 1..Len(rt.hist) :
        rt.hist[i] = 404 =>
            /\ i = Len(rt.hist)
            /\ rt.result = "thrown"
            /\ rt.lastSleep = 0

----------------------------------------------------------------------------
(* Claims about the paginated fetcher *)

Occurrences(seq, x) == Cardinality({i \in 1..Len(seq) : seq[i] = x})

\* C12: against a source of k pages that answers every request, fetchAllPages
\* requests no page twice and no page outside 1..k, and when it returns it
\* has requested each page 1..k exactly once and its result holds the
\* records of each page exactly once, all n records of the source.
C12_EachPageOnce ==
    LET k == TotalPages(pg.n)
    IN  /\ Len(pg.requests) <= k
        /\ \A i \in 1..Len(pg.requests) :
              pg.requests[i] \in 1..k /\ Occurrences(pg.requests, pg.requests[i]) = 1
        /\ \A i \in 1..Len(pg.data) : Occurrences(pg.data, pg.data[i]) = 1
        /\ pg.f.pc # "failed"
        /\ pg.f.pc = "done" =>
              /\ \A page \in 1..k :
                    /\ Occurrences(pg.requests, page) = 1
                    /\ Occurrences(pg.data, page) = 1
              /\ Len(pg.data) = k
              /\ pg.f.fetched = pg.n

C12_Witness ==
    /\ pg.n = 420
    /\ pg.f.maxConcurrent = 2
    /\ pg.f.pc = "done"
    /\ pg.requests = <<1, 2, 3, 4, 5>>
    /\ pg.f.fetched = 420

----------------------------------------------------------------------------
(* Claims about the sync orchestrator *)

ActiveRuns == {r \in Runs : runs[r].pc \in ActivePcs}

\* C3: at most one sync run is active at any time; a trigger that arrives
\* while the status is syncing is answered 409, starts no run and leaves the
\* progress and the running sync untouched.
C3_OneSyncAtATime ==
    /\ [](Cardinality(ActiveRuns) <= 1)
    /\ [][(progress.status = "syncing" /\ (reply' # reply \/ nRuns' # nRuns))
            => /\ reply' = 409
               /\ nRuns' = nRuns
               /\ runs' = runs
               /\ progress' = progress]_vars

C3_Witness ==
    /\ reply = 409
    /\ progress.status = "syncing"
    /\ progress.campaigns.fetched > 0
    /\ ActiveRuns = {2}

\* C4: the mutation that sets the status to syncing also clears the error
\* and resets the four per-entity counters to 0 / 0.
C4_StartResetsCounters ==
    [][(progress.status # "syncing" /\ progress'.status = "syncing")
        => /\ progress'.error = NoError
           /\ \A e \in Entities : progress'[e] = Counter(0, 0)]_vars

StatusMoves ==
    {<<"idle", "syncing">>, <<"syncing", "completed">>, <<"syncing", "error">>,
     <<"completed", "syncing">>, <<"error", "syncing">>}

\* C5: a callback registered with subscribe that throws neither aborts
\* syncAll nor changes its outcome (a run fails only for a failure of the
\* store or the upstream, and rejects with it), and every other subscribed
\* callback has received the current snapshot.
C5_SubscriberIsolation ==
    /\ \A r \in Runs :
          runs[r].pc = "failed" =>
              runs[r].fault # NoError /\ runs[r].rejected = runs[r].fault
    /\ \A i \in 1..Len(callbacks) :
          callbacks[i].kind = "sse" => seen[callbacks[i].id] = progress

\* C6: a performance request answered from the cache gets a payload
\* computed from store contents read after the last successful sync
\* completed, never from contents read before that completion.
C6_NoStaleCacheAfterSync ==
    served.cached => served.data.readAt = served.at

RunFails == \E r \in Runs : runs[r].pc # "failed" /\ runs'[r].pc = "failed"

RunCompletes == \E r \in Runs : runs[r].pc # "done" /\ runs'[r].pc = "done"

\* C7: the cache is cleared in bulk exactly once per sync run, in the step
\* in which the run completes successfully, and never when a run ends in
\* error: an entry leaves the cache only by that clear or once its TTL has
\* expired.
C7_ClearedOnlyOnSuccess ==
    /\ [](\A r \in Runs :
            runs[r].clears = IF runs[r].pc = "done" THEN 1 ELSE 0)
    /\ [][RunCompletes => cache' = EmptyCache]_vars
    /\ [][RunFails => cache' = cache]_vars
    /\ [][\A k \in PerfKeys :
            (cache[k] # NoEntry /\ cache'[k] = NoEntry)
                => (RunCompletes \/ now > cache[k].expiresAt)]_vars

C7_Witness ==
    /\ runs[1].pc = "failed"
    /\ progress.status = "error"
    /\ \A k \in PerfKeys :
          /\ cache[k] # NoEntry
          /\ cache[k].setRun = 0
          /\ CacheGet(cache, k, now).hit

\* C13: when a sync has completed, the snapshot that carries status completed,
\* the last one delivered, shows fetched equal to total for each of the four
\* entity types.
C13_FinalSnapshotComplete ==
    progress.status = "completed" =>
        /\ \A e \in Entities : progress[e].fetched = progress[e].total
        /\ \A id \in SubscribedIds :
              \A e \in Entities : seen[id][e].fetched = seen[id][e].total

\* C14: every progress mutation is delivered, as the full snapshot and in
\* the step that produces it, to every callback subscribed at that moment:
\* a callback that stays subscribed has always seen the current snapshot,
\* so it sees the mutations in order and misses none.
C14_EveryMutationDelivered ==
    [][progress' # progress =>
          \A i \in 1..Len(callbacks) :
              (\E j \in 1..Len(callbacks') : callbacks'[j].id = callbacks[i].id)
                  => seen'[callbacks[i].id] = progress']_vars

\* C15: getProgress returns a defensive copy: before any update of the
\* service its progress, which is what getProgress returns, has all counters
\* at zero and status idle, and no step other than an update of the service
\* changes that progress, so no write to a snapshot, nested counters
\* included, does.
C15_SnapshotIsDefensiveCopy ==
    /\ [](hp.svc = InitialHeap.svc => progress = InitialProgress)
    /\ [][hp'.svc = hp.svc => progress' = progress]_vars

\* C16: after a successful sync, and again after a second successful sync
\* against the same upstream, the store holds exactly the rows of the
\* upstream, for each of the four tables: the second run leaves what the
\* first left, no row duplicated and none lost.
C16_ResyncIdempotent ==
    /\ (nRuns = 1 /\ runs[1].pc = "done")
           => \A e \in Entities : store[e] = upstream[e]
    /\ (runs[1].pc = "done" /\ runs[2].pc = "done")
           => \A e \in Entities : store[e] = upstream[e]

C16_Witness ==
    /\ runs[1].pc = "done"
    /\ runs[2].pc = "done"
    /\ reply = 200
    /\ store = upstream

\* C8: the status only moves idle -> syncing, syncing -> completed,
\* syncing -> error, completed -> syncing and error -> syncing; it never
\* returns to idle and never passes between completed and error directly.
C8_StatusMoves ==
    [][progress'.status # progress.status
        => <<progress.status, progress'.status>> \in StatusMoves]_vars

C8_Witness ==
    /\ nRuns = 2
    /\ runs[1].pc = "failed"
    /\ runs[2].pc = "done"
    /\ progress.status = "completed"

\* C9: every sync that has been started eventually reaches status completed
\* or error, given that every upstream request and store operation
\* eventually returns or fails.
C9_SyncTerminates ==
    (progress.status = "syncing")
        ~> (progress.status \in {"completed", "error"})

C9_Witness ==
    /\ runs[1].pc = "failed"
    /\ runs[1].fault = "Max retries exceeded"
    /\ runs[1].f["ads"].inflight # {}
    /\ progress.status = "error"

\* C10: when the truncation, a page fetch whose retries are exhausted or a
\* bulk insert fails, the run ends with status error and the failure's
\* message in the error field, syncAll rejects with that failure, and the
\* run is never completed.
C10_FailureEndsInError ==
    \A r \in Runs :
        runs[r].fault # NoError =>
            /\ runs[r].pc = "failed"
            /\ runs[r].rejected = runs[r].fault
            /\ runs[r].clears = 0
            /\ r = nRuns =>
                  /\ progress.status = "error"
                  /\ progress.error = runs[r].fault

C10_Witness ==
    /\ runs[1].fault = "insert failed"
    /\ store["ads"] > 0
    /\ runs[2].fault = "Internal Server Error after retries"
    /\ progress.status = "error"

----------------------------------------------------------------------------
(* Claims about the aggregation engine *)

CampaignById(db, id) ==
    db.campaigns[CHOOSE i \in 1..Len(db.campaigns) :
                    db.campaigns[i].campaign_id = id]

\* The campaign a result row was grouped under: the last part of its key.
RowCampaign(db, row) == CampaignById(db, row.group[Len(row.group)])

\* The entity at the grouping level that owns an insight row.
LevelStatus(db, req, insight) ==
    IF req.grouping = "campaign"
    THEN CampaignOf(db, insight).status
    ELSE AdOf(db, insight).status

SearchSun == <<"s", "u", "n">>

\* C17: a request with search text never returns a row, and never sums an
\* insight row, whose campaign objective differs from the requested one;
\* this for both groupings, with or without a status filter, and also when
\* the text matches the name of an ad of a campaign of another objective.
C17_ObjectiveAlwaysApplied ==
    (pq.pc = "done" /\ pq.req.filters.search # NoSearch) =>
        LET wanted == pq.req.filters.campaignObjective
            rows == pq.result.rows
            data == pq.result.data
            insights == pq.result.insights
        IN  /\ \A i \in 1..Len(rows) :
                RowCampaign(pq.db, rows[i]).campaign_objective = wanted
            /\ \A i \in 1..Len(data) :
                RowCampaign(pq.db, data[i]).campaign_objective = wanted
            /\ \A i \in 1..Len(insights) :
                CampaignOf(pq.db, insights[i]).campaign_objective = wanted

\* A request for sales rows was answered with rows, while the text matches
\* an in-range ad of a campaign of another objective.
C17_Witness ==
    /\ pq.pc = "done"
    /\ pq.req.filters.search = SearchSun
    /\ pq.req.filters.campaignObjective = "sales"
    /\ pq.req.filters.status = "active"
    /\ pq.req.grouping = "ad"
    /\ Len(pq.result.data) > 0
    /\ \E i \in 1..Len(pq.db.insights) :
        LET insight == pq.db.insights[i]
        IN  /\ insight.date >= pq.req.filters.from
            /\ insight.date <= pq.req.filters.to
            /\ Contains(AdOf(pq.db, insight).name, SearchSun)
            /\ AdOf(pq.db, insight).status = "active"
            /\ CampaignOf(pq.db, insight).campaign_objective # "sales"

\* C18: when a status filter is given, every returned row belongs to an
\* entity of the grouping level with that status, and only insight rows of
\* such entities contribute; also when search text matches the campaign
\* name.
C18_StatusAtGroupingLevel ==
    (pq.pc = "done" /\ pq.req.filters.status # NoStatus) =>
        LET wanted == pq.req.filters.status
            groups == pq.result.groups
            insights == pq.result.insights
        IN  /\ \A g \in 1..Len(groups) : groups[g].status = wanted
            /\ \A i \in 1..Len(insights) :
                LevelStatus(pq.db, pq.req, insights[i]) = wanted

\* All insight rows of a campaign within the requested dates.
InRangeOfCampaign(db, req, id) ==
    SelectSeq(db.insights,
              LAMBDA x : /\ x.campaign_id = id
                         /\ x.date >= req.filters.from
                         /\ x.date <= req.filters.to)

\* C19: with grouping=campaign, search text is matched against the campaign
\* name only: a campaign whose name does not contain the text produces no
\* row, and a returned campaign is summed over all of its in-range insight
\* rows.
C19_CampaignSearchByNameOnly ==
    (/\ pq.pc = "done"
     /\ pq.req.grouping = "campaign"
     /\ pq.req.filters.search # NoSearch) =>
        LET groups == pq.result.groups
        IN  \A g \in 1..Len(groups) :
                /\ Contains(groups[g].campaign_name, pq.req.filters.search)
                /\ Totals(groups[g]) =
                     Totals([dailyData |->
                               InRangeOfCampaign(pq.db, pq.req,
                                                 groups[g].campaign_id)])

SpendDescending == [field |-> "spend", direction |-> "desc"]

\* The summed spend of the group a result row came from.
SpendOfRow(groups, row) ==
    Totals(groups[CHOOSE g \in 1..Len(groups) : groups[g].key = row.group]).spend

\* The page holds the rows ranked (p-1)*s+1 .. p*s by summed spend, rows of
\* equal spend sharing their ranks, and meta counts the rows and the pages.
PageHoldsRanksBySpend ==
    LET groups == pq.result.groups
        data == pq.result.data
        meta == pq.result.meta
        n == Len(groups)
        s == pq.req.pagination.pageSize
        p == pq.req.pagination.page
        spends == [g \in 1..n |-> Totals(groups[g]).spend]
    IN  /\ Len(data) = Max(0, Min(s, n - (p - 1) * s))
        /\ \A k \in 1..Len(data) :
            /\ \E g \in 1..n : groups[g].key = data[k].group
            /\ \A other \in 1..Len(data) :
                other # k => data[other].group # data[k].group
            /\ LET rank == (p - 1) * s + k
                   mine == SpendOfRow(groups, data[k])
                   above == Cardinality({g \in 1..n : spends[g] > mine})
                   notBelow == Cardinality({g \in 1..n : spends[g] >= mine})
               IN  above < rank /\ rank <= notBelow
        /\ meta.totalRows = n
        /\ meta.totalPages * s >= n
        /\ meta.totalPages = 0 \/ (meta.totalPages - 1) * s < n

\* C20 as stated: any request sorted descending by spend returns on page p
\* the rows ranked (p-1)*s+1 .. p*s by summed spend, with meta.totalRows = n
\* and meta.totalPages = ceil(n/s).
C20_AnySortedRequestRanked ==
    (pq.pc = "done" /\ pq.req.sorting = SpendDescending) =>
        PageHoldsRanksBySpend

\* C20, amended: a request that asks for the spend column and is sorted
\* descending by spend returns on page p the rows ranked (p-1)*s+1 .. p*s by
\* summed spend, with meta.totalRows = n and meta.totalPages = ceil(n/s).
C20_SortedBySpendColumnRanked ==
    (/\ pq.pc = "done"
     /\ pq.req.sorting = SpendDescending
     /\ \E c \in 1..Len(pq.req.columns) : pq.req.columns[c] = "spend") =>
        PageHoldsRanksBySpend

\* 25 grouped rows, page size 10, page 2: ten rows and three pages.
C20_Witness ==
    /\ pq.pc = "done"
    /\ pq.req.sorting = SpendDescending
    /\ \E c \in 1..Len(pq.req.columns) : pq.req.columns[c] = "spend"
    /\ Len(pq.result.groups) = 25
    /\ pq.req.pagination.pageSize = 10
    /\ pq.req.pagination.page = 2
    /\ Len(pq.result.data) = 10
    /\ pq.result.meta.totalPages = 3
    /\ SpendOfRow(pq.result.groups, pq.result.data[1])
         > SpendOfRow(pq.result.groups, pq.result.data[10])

----------------------------------------------------------------------------
(* Claims about the KPI calculator *)

\* The measure whose being 0 makes a KPI 0.
GuardOf ==
    [cpm |-> "impressions", cpr |-> "reach", ctr |-> "impressions",
     cpc |-> "clicks", view_rate |-> "impressions", cpv |-> "video_views",
     cpl |-> "leads", lead_conv_rate |-> "clicks", roas |-> "spend",
     cpa |-> "conversions"]

\* C21: for each of the ten KPI formulas, when its guard denominator is 0
\* the KPI is exactly 0 whatever the other measures are, and the averaged and
\* the spend-weighted roll-ups are numbers (neither NaN nor Infinity), 0 for
\* an empty list of days and 0 when the total weight is 0.
C21_ZeroGuard ==
    /\ kp.pc \in {"daily", "averaged", "weighted"} =>
        \A a \in 1..Len(kp.ads) : \A d \in 1..Len(kp.ads[a]) :
            \A k \in KpiNames :
                /\ IsFinite(kp.daily[a][d][k])
                /\ kp.ads[a][d][GuardOf[k]] = 0 => kp.daily[a][d][k] = Zero
    /\ kp.pc \in {"averaged", "weighted"} =>
        \A a \in 1..Len(kp.ads) : \A k \in KpiNames :
            /\ IsFinite(kp.adKPIs[a].kpis[k])
            /\ kp.ads[a] = <<>> => kp.adKPIs[a].kpis[k] = Zero
    /\ kp.pc = "weighted" =>
        \A k \in KpiNames :
            /\ IsFinite(kp.kpis[k])
            /\ (\A a \in 1..Len(kp.ads) : \A d \in 1..Len(kp.ads[a]) :
                    kp.ads[a][d].spend = 0) => kp.kpis[k] = Zero

\* Two ads were rolled up: one without days, one with a day that has spend
\* but neither impressions nor clicks.
C21_Witness ==
    /\ kp.pc = "weighted"
    /\ Len(kp.ads) = 2
    /\ kp.ads[1] = <<>>
    /\ Len(kp.ads[2]) = 2
    /\ kp.ads[2][1].clicks = 0
    /\ kp.ads[2][1].impressions = 0
    /\ kp.ads[2][1].spend > 0
    /\ kp.kpis["cpm"] # Zero

\* All insight rows within the requested dates.
InRange(db, req) ==
    SelectSeq(db.insights,
              LAMBDA x : x.date >= req.filters.from /\ x.date <= req.filters.to)

\* The sum of the values of f over the set S.
RECURSIVE SumFun(_, _)
SumFun(f, S) ==
    IF S = {}
    THEN Zero
    ELSE LET x == CHOOSE y \in S : TRUE
         IN  Plus(f[x], SumFun(f, S \ {x}))

\* The positions in rows of the days of an ad.
DaysOf(rows, ad) == {i \in 1..Len(rows) : rows[i].ad_id = ad}

\* The mean over the days of an ad of the daily value of a KPI.
MeanDailyKpi(rows, ad, k) ==
    LET days == DaysOf(rows, ad)
    IN  Over(SumFun([i \in days |-> CalculateDailyKPIs(rows[i])[k]], days),
             Whole(Cardinality(days)))

\* The spend of an ad over its days.
SpendOfAd(rows, ad) ==
    LET days == DaysOf(rows, ad)
    IN  SumFun([i \in days |-> Whole(rows[i].spend)], days)

\* The ads of a campaign that have days among rows.
AdsWithDays(rows, campaign) ==
    {rows[i].ad_id : i \in {j \in 1..Len(rows) :
                               rows[j].campaign_id = campaign}}

\* Sum of (mean daily KPI x spend) over the ads of the campaign, divided by
\* the campaign's spend; 0 when that spend is 0.
SpendWeightedKpi(rows, campaign, k) ==
    LET ads == AdsWithDays(rows, campaign)
        total == SumFun([a \in ads |-> SpendOfAd(rows, a)], ads)
        weighted ==
            SumFun([a \in ads |-> Times(MeanDailyKpi(rows, a, k),
                                        SpendOfAd(rows, a))], ads)
    IN  IF total = Zero THEN Zero ELSE Over(weighted, total)

C23_AdRowSumsAndMeans ==
    (pq.pc = "done" /\ pq.req.grouping = "ad") =>
        \A r \in 1..Len(pq.result.rows) :
            LET row == pq.result.rows[r]
                ad == row.group[1]
                rows == InRange(pq.db, pq.req)
                days == DaysOf(rows, ad)
            IN  /\ \A m \in Measures \cap DOMAIN row.cols :
                    Whole(row.cols[m]) =
                        SumFun([i \in days |-> Whole(rows[i][m])], days)
                /\ \A k \in KpiNames \cap DOMAIN row.cols :
                    row.cols[k] = MeanDailyKpi(rows, ad, k)

\* The ad with daily CTR 1, 2 and 3 is returned with CTR 2, which is not the
\* CTR of its summed clicks and impressions (8 of 350).
C23_Witness ==
    /\ pq.pc = "done"
    /\ pq.req.grouping = "ad"
    /\ pq.db = KpiDb
    /\ pq.req.filters.from = 1
    /\ pq.req.filters.to = 3
    /\ \E r \in 1..Len(pq.result.data) :
        LET row == pq.result.data[r]
        IN  /\ row.group = <<3, 2>>
            /\ {"ctr", "clicks", "impressions"} \subseteq DOMAIN row.cols
            /\ row.cols["ctr"] = Whole(2)
            /\ row.cols["clicks"] = 8
            /\ row.cols["impressions"] = 350
            /\ row.cols["ctr"] #
                 Times(Over(Whole(8), Whole(350)), Whole(100))

----------------------------------------------------------------------------
(* Claims about the performance route *)

\* page < 1, pageSize < 1, or no filters, pagination or columns.
Malformed(body) ==
    \/ {"filters", "pagination", "columns"} \ DOMAIN body # {}
    \/ body.pagination.page < 1
    \/ body.pagination.pageSize < 1

\* C24: a malformed performance request is rejected by the route before
\* getPerformance runs: the engine is never called on it, and no result for
\* it is sent or cached.
C24_MalformedRejected ==
    Malformed(rq.body) =>
        /\ rq.calls = 0
        /\ rq.cache[rq.body] = NoEntry
        /\ rq.reply.status # 200

----------------------------------------------------------------------------
(* Claims about the data server's paginate *)

\* The data of the pages first..last one after the other.
RECURSIVE PagesJoined(_, _, _)
PagesJoined(results, first, last) ==
    IF first > last
    THEN <<>>
    ELSE results[first].data \o PagesJoined(results, first + 1, last)

\* C25: for any list of n items, paginate reports totalPages =
\* max(1, ceil(n/100)); the pages 1..totalPages are consecutive slices of at
\* most 100 items that do not overlap and, joined in page order, are the
\* whole list; any page beyond totalPages is empty.
C25_PagesPartitionTheList ==
    pn.pc = "serving" =>
        LET n == Len(pn.items)
            called == DOMAIN pn.results
        IN  /\ \A p \in called :
                LET r == pn.results[p]
                    tp == r.pagination.totalPages
                IN  /\ tp >= 1
                    /\ tp * 100 >= n
                    /\ tp = 1 \/ (tp - 1) * 100 < n
                    /\ Len(r.data) <= 100
                    /\ p > tp => r.data = <<>>
                    /\ \A i \in 1..Len(r.data) :
                        r.data[i] = pn.items[(p - 1) * 100 + i]
                    /\ \A q \in called \ {p} :
                        \A i \in 1..Len(r.data) :
                            \A j \in 1..Len(pn.results[q].data) :
                                r.data[i] # pn.results[q].data[j]
            /\ \A tp \in 1..4 :
                (/\ 1..tp \subseteq called
                 /\ pn.results[1].pagination.totalPages = tp) =>
                    PagesJoined(pn.results, 1, tp) = pn.items

\* The three pages of 250 items and a page beyond them were served.
C25_Witness ==
    /\ pn.pc = "serving"
    /\ Len(pn.items) = 250
    /\ DOMAIN pn.results = 1..4
    /\ Len(pn.results[3].data) = 50
    /\ pn.results[4].data = <<>>
    /\ pn.results[2].pagination.totalPages = 3

----------------------------------------------------------------------------
(* Claims about the order of the steps of a sync *)

C27_SettledRunIsSilent ==
    [][\A r \in 1..nRuns :
          (runs[r].pc \in {"done", "failed"} /\ runs'[r] # runs[r]) =>
              /\ progress' = progress
              /\ \A e \in Entities :
                    runs'[r].f[e].inflight \subseteq runs[r].f[e].inflight]_vars


----------------------------------------------------------------------------
(* Claims about the requests of one collection fetch *)

\* The pages fetchAllPages has requested so far.
Requested == {pg.requests[i] : i \in 1..Len(pg.requests)}

\* The batch a page belongs to: page 1 is on its own, the pages after it go
\* in groups of maxConcurrent.
BatchOf(page) ==
    IF page = 1 THEN 0 ELSE 1 + (page - 2) \div pg.f.maxConcurrent

\* C28: within one collection fetch at most maxConcurrent page requests are
\* in flight, page 1 is requested alone before any other page, and no page
\* of a batch is requested while a request of an earlier batch, retries
\* included, is still unfinished.
C28_BatchesBoundedAndAwaited ==
    pg.f.pc # "idle" =>
        /\ Cardinality(pg.f.inflight) <= pg.f.maxConcurrent
        /\ pg.requests[1] = 1
        /\ \A p \in Requested : \A q \in Requested :
              BatchOf(q) < BatchOf(p) => q \notin pg.f.inflight

\* A second batch as large as the limit allows is in flight.
C28_Witness ==
    /\ pg.f.pc = "batch"
    /\ pg.f.maxConcurrent > 1
    /\ pg.f.batchIndex >= 1
    /\ Cardinality(pg.f.inflight) = pg.f.maxConcurrent
    /\ Cardinality(Requested) < pg.f.totalPages


----------------------------------------------------------------------------
(* Claims about the sequencing of truncation, storage and the insights fetch *)

\* The step issues the first page request of collection e in run r.
FetchStarts(r, e) ==
    /\ runs[r].f[e].pc = "idle"
    /\ runs'[r].f[e].pc # "idle"

\* C29: in every run the first request for insights is issued only once
\* the bulk inserts of campaigns, creatives and ads of that run have all
\* completed, and the first requests for campaigns, creatives and ads are
\* issued only once the truncation of the run has completed; while a run
\* waits for its truncation it has no request under way.
C29_FetchesAfterTruncateAndStorage ==
    [][\A r \in Runs :
          /\ FetchStarts(r, "insights") =>
                /\ runs[r].pc = "store3"
                /\ \A e \in FirstThree :
                      /\ runs'[r].ins[e] = "done"
                      /\ runs[r].f[e].pc = "done"
                      /\ store'[e] >= runs[r].f[e].fetched
          /\ \A e \in FirstThree :
                FetchStarts(r, e) =>
                    /\ runs[r].pc = "truncate"
                    /\ runs'[r].pc = "fetch3"
                    /\ store' = EmptyStore
          /\ runs[r].pc = "truncate" =>
                \A e \in Entities : runs[r].f[e].inflight = {}]_vars

\* Page 1 of insights has just been requested, with the three tables stored.
C29_Witness ==
    \E r \in 1..nRuns :
        /\ runs[r].pc = "fetchIns"
        /\ runs[r].f["insights"].pc = "first"
        /\ runs[r].f["insights"].inflight = {1}
        /\ \A e \in FirstThree :
              runs[r].ins[e] = "done" /\ store[e] = upstream[e]


----------------------------------------------------------------------------
(* Claims about the dashboard client *)

\* C30: once every performance request the provider has issued is answered,
\* and the most recent one was answered with data, the data the provider
\* holds is the response to that most recent request.
C30_LatestResponseHeld ==
    LET n == Len(cl.fetches)
    IN  (/\ cl.pc = "open"
         /\ n > 0
         /\ \A i \in 1..n : cl.fetches[i].state # "pending"
         /\ cl.fetches[n].state = "ok"
         /\ cl.campaignObjective # ""
         /\ Len(cl.selectedColumns) > 0) =>
            cl.data = ResponseTo(cl.fetches[n].body)

====
